---- MODULE Spec2Model ----
(***************************************************************************)
(* Tentai Show (galaxy-style symmetry puzzle): the Game-ID codec, the      *)
(* solver drivers and the generator, modelled from the sources:            *)
(*   src/solver/seq_solver.c          BFS, C            (driver "c_bfs")   *)
(*   src/solver/seq_solver.cpp        BFS, C++          (driver "cpp_bfs") *)
(*   src/solver/seq_solver_dfs.cpp    in-place DFS      (driver "seq_dfs") *)
(*   src/solver/openmp_solver_dfs.cpp root-split DFS    (driver "omp_dfs") *)
(*   src/generator/simple_generator.c the generator                        *)
(* A solver run (Spec) reads one Game ID, decodes it, seeds the forced     *)
(* tiles and searches; a generator run (GenSpec) builds one board and      *)
(* prints its Game ID; ExpandSpec applies dot_expand_or_move on its own.   *)
(* 64-bit hash words are sets of bit positions (XOR is the                 *)
(* symmetric difference); the Zobrist table holds pairwise independent     *)
(* words, i.e. one of the collision-free outcomes of the random generator. *)
(***************************************************************************)
EXTENDS Integers, Sequences, FiniteSets, TLC

\* ---------------------------------------------------------------- bounds
MaxW == 2
MaxH == 1
MaxDots == 2
MaxThreads == 2

\* ------------------------------------------------------------ arithmetic
\* C and C++ integer division truncates toward zero.
CDiv(a, b) == IF a >= 0 THEN a \div b ELSE -((-a) \div b)

Abs(a) == IF a >= 0 THEN a ELSE -a

\* a 64-bit word is the set of its 1-bits; ^ is the symmetric difference
XorHash(a, b) == (a \ b) \cup (b \ a)

\* ----------------------------------------------------------------- codec
Letters == <<"a","b","c","d","e","f","g","h","i","j","k","l","m",
             "n","o","p","q","r","s","t","u","v","w","x","y","z">>

IsLetter(c) == \E i \in 1..26 : Letters[i] = c

\* variant: the run letter counted from zero (c - 'a')
LetterVal_zeroBased(c) == (CHOOSE i \in 1..26 : Letters[i] = c) - 1

\* c - 'a' + 1
LetterVal(c) == CHOOSE i \in 1..26 : Letters[i] = c

RECURSIVE RunLetters(_)
\* variant: a run over 26 written as a single 'z'
RunLetters_noSplit(run) ==
  IF run > 26 THEN <<"z">> ELSE <<Letters[run]>>

\* encode_game: while (run > 26) emit 'z'; then emit 'a' + run - 1
RunLetters(run) ==
  IF run > 26 THEN <<"z">> \o RunLetters(run - 26) ELSE <<Letters[run]>>

RECURSIVE encode_scan(_, _, _, _, _, _)
encode_scan(n, dotset, blackset, i, run, acc) ==
  IF i = n
  THEN IF run # 0 THEN acc \o RunLetters(run) ELSE acc
  ELSE IF i \in dotset
       THEN encode_scan(n, dotset, blackset, i + 1, 0,
              (IF run # 0 THEN acc \o RunLetters(run) ELSE acc)
                \o <<IF i \in blackset THEN "B" ELSE "M">>)
       ELSE encode_scan(n, dotset, blackset, i + 1, run + 1, acc)

\* variant: every dot written as 'B'
encode_game_allBlack(sx, sy, dotset, blackset) ==
  encode_scan(sx * sy, dotset, dotset, 0, 0, <<>>)

\* the data part of the Game ID of a board whose dots sit at the row-major
\* cell indices dotset (those in blackset being black)
encode_game(sx, sy, dotset, blackset) ==
  encode_scan(sx * sy, dotset, blackset, 0, 0, <<>>)

RECURSIVE decode_scan(_, _, _, _, _)
decode_scan(data, sx, i, pos, dots) ==
  IF i > Len(data) THEN dots
  ELSE LET c == data[i] IN
    IF c = "M"
    THEN decode_scan(data, sx, i + 1, pos + 1,
           Append(dots, [x |-> pos % sx, y |-> pos \div sx, is_black |-> FALSE]))
    ELSE IF c = "B"
    THEN decode_scan(data, sx, i + 1, pos + 1,
           Append(dots, [x |-> pos % sx, y |-> pos \div sx, is_black |-> TRUE]))
    ELSE IF IsLetter(c)
    THEN decode_scan(data, sx, i + 1, pos + LetterVal(c), dots)
    ELSE decode_scan(data, sx, i + 1, pos, dots)

\* variant: the internal row taken 2 * w wide
fromGameId_narrowRow(gid) ==
  [w |-> gid.w, h |-> gid.h, sx |-> 2 * gid.w, sy |-> 2 * gid.h + 1,
   dots |-> decode_scan(gid.data, 2 * gid.w, 1, 0, <<>>)]

\* Puzzle::fromGameId (the "WxH:" prefix already split into numbers)
fromGameId(gid) ==
  [w |-> gid.w, h |-> gid.h, sx |-> 2 * gid.w + 1, sy |-> 2 * gid.h + 1,
   dots |-> decode_scan(gid.data, 2 * gid.w + 1, 1, 0, <<>>)]

\* parse_game_id of the C solvers: the same scan
parse_game_id(gid) ==
  [w |-> gid.w, h |-> gid.h, sx |-> 2 * gid.w + 1, sy |-> 2 * gid.h + 1,
   dots |-> decode_scan(gid.data, 2 * gid.w + 1, 1, 0, <<>>)]

\* ---------------------------------------------------------------- inputs
RECURSIVE KSubsets(_, _)
KSubsets(S, k) ==
  IF k = 0 THEN {{}}
  ELSE LET P == KSubsets(S, k - 1) IN P \cup {s \cup {c} : s \in P, c \in S}

\* Game IDs written by the generator's encoder for every board of at most
\* MaxW x MaxH tiles carrying at most MaxDots (white) dots
EncodedIds ==
  UNION { { [w |-> ww, h |-> hh,
             data |-> encode_game(2 * ww + 1, 2 * hh + 1, ds, {})] :
            ds \in KSubsets(0 .. ((2 * ww + 1) * (2 * hh + 1) - 1), MaxDots) } :
          ww \in 1..MaxW, hh \in 1..MaxH }

\* hand-written Game IDs: the documented scenarios, a black dot, data that
\* runs past the internal grid, and boards on which the search has pair moves
\* to make and to take back
ScenarioIds ==
  { [w |-> 1, h |-> 1, data |-> <<"M", "a">>],
    [w |-> 2, h |-> 1, data |-> <<"b", "M", "b">>],
    [w |-> 4, h |-> 2, data |-> <<"k", "M", "c", "M", "z", "c">>],
    [w |-> 2, h |-> 1, data |-> <<"g", "B", "g">>],
    [w |-> 1, h |-> 1, data |-> <<"d", "M", "d", "M">>],
    [w |-> 2, h |-> 1, data |-> <<"g", "M", "g", "M">>],
    [w |-> 4, h |-> 2, data |-> <<"t", "M", "c", "M", "t">>],
    [w |-> 2, h |-> 2, data |-> <<"h", "M", "c", "M", "c", "M", "h">>],
    [w |-> 3, h |-> 1, data |-> <<"j", "M", "j">>],
    [w |-> 3, h |-> 2, data |-> <<"q", "M", "q">>],
    [w |-> 3, h |-> 2, data |-> <<"q", "M", "q", "M">>],
    [w |-> 1, h |-> 1, data |-> <<"j", "M">>] }

GameIds == EncodedIds \cup ScenarioIds

Drivers == {"c_bfs", "cpp_bfs", "seq_dfs", "omp_dfs"}

\* ------------------------------------------------------- state of a run
VARIABLES
  driver,      \* which solver program runs
  gameId,      \* the Game ID read from the input file: [w, h, data]
  maxThreads,  \* omp_get_max_threads()
  pc,          \* position of the main thread
  puzzle,      \* Puzzle: [w, h, sx, sy, dots]
  zobrist,     \* zobrist_[cell][dot]
  cur,         \* State initial / Solver::grid_, filled_count_, current_hash_
  queue,       \* std::queue<State> q / queue_head..queue_tail
  visited,     \* visited_ / visited[] / Shared::visited
  stack,       \* DFS call stack of the main solver: frames [moves, i]
  retval,      \* value returned by the dfs() call that has just returned
  iterations,  \* number of states the driver has examined
  seedFailed,  \* seeding found a forced tile owned by another dot
  stderrMsg,   \* an "Error: Overlapping ..." line was written
  verdict,     \* "pending" | "solved" | "no_solution" | "error"
  solution,    \* the grid handed to printSolution / print_solution
  threads,     \* omp team: per thread [pc, s, stack, retval, local_seen]
  found,       \* std::atomic<bool> found
  parSolution, \* std::vector<std::vector<int16_t>> solution (shared)
  rootMoves,   \* root_moves
  nextRoot,    \* next iteration handed out by schedule(dynamic, 1)
  commits,     \* how often a solution grid has been written or printed
  level,       \* level_states[0 .. count-1] of openmp_solver.c
  levelI,      \* next iteration of the omp for loop over level_states
  gpc,         \* position of the generator ("idle" while a solver runs)
  state,       \* game_state of the generator: [w, h, sx, sy, grid, ndots, dots]
  live,        \* scratch[0 .. i-1]: the cells already visited that are not quiet
  quiet,       \* scratch[0 .. i-1]: the number of visited cells that are quiet
  plan,        \* the leading entries of scratch[] after the shuffle
  loopI,       \* loop index i of generate_pass / of the outlining loop
  divByZero,   \* what the build does on an integer division by zero
  desc,        \* the string encode_game returns
  fnDot,       \* dot_expand_or_move called on its own: argument dot
  fnToadd,     \* ... argument toadd[0 .. nadd-1]
  fnRet,       \* ... its return value (-1 before the call returns)
  cmdline,     \* generator arguments: [w, h, seedGiven, seed, count]
  clock,       \* time(NULL) when main starts
  runNo,       \* 1: first run of the command line, 2: the same line run again
  rs,          \* random_state: state[0 .. 3], each word a set of bit positions
  scratch,     \* int *scratch of generate_new_game
  draws,       \* the values random_upto has returned so far in this run
  printed,     \* what main has printed: one [board, id] for each puzzle
  firstRun,    \* the record of the first run: [clock, seed, draws, printed, gpc]
  hash_locks,  \* the locks of the visited set that are held
  buckets,     \* visited[idx]: the chain of keys, newest first
  calls        \* the calls of the test-and-insert: [pc, hash, entry, found, added, rets]

vars == <<driver, gameId, maxThreads, pc, puzzle, zobrist, cur, queue,
          visited, stack, retval, iterations, seedFailed, stderrMsg,
          verdict, solution, threads, found, parSolution, rootMoves, nextRoot,
          commits, level, levelI,
          gpc, state, live, quiet, plan, loopI, divByZero, desc,
          fnDot, fnToadd, fnRet,
          cmdline, clock, runNo, rs, scratch, draws, printed, firstRun,
          hash_locks, buckets, calls>>

lockVars == <<hash_locks, buckets, calls>>

fnVars == <<fnDot, fnToadd, fnRet>>

runVars == <<cmdline, clock, runNo, rs, scratch, draws, printed, firstRun>>

genVars ==
  <<gpc, state, live, quiet, plan, loopI, divByZero, desc, fnVars, runVars>>

levelVars == <<commits, level, levelI>>

parVars == <<threads, found, parSolution, rootMoves, nextRoot, levelVars>>

\* --------------------------------------------------------------- geometry
Tiles(w, h) == (0 .. w - 1) \X (0 .. h - 1)

NDots(p) == Len(p.dots)

\* dots()[d] with the 0-based index of the code
DotAt(p, d) == p.dots[d + 1]

EmptyGrid(w, h) == [t \in Tiles(w, h) |-> -1]

EmptyState(w, h) == [grid |-> EmptyGrid(w, h), filledCount |-> 0, hash |-> {}]

inTileBounds(p, tx, ty) == tx >= 0 /\ tx < p.w /\ ty >= 0 /\ ty < p.h

\* variant: the last column and the last row taken as out of bounds
isValidTile_offByOne(p, s, tx, ty) ==
  IF ~(tx >= 0 /\ tx < p.w - 1 /\ ty >= 0 /\ ty < p.h - 1) THEN FALSE
  ELSE s.grid[<<tx, ty>>] = -1

isValidTile(p, s, tx, ty) ==
  IF ~inTileBounds(p, tx, ty) THEN FALSE ELSE s.grid[<<tx, ty>>] = -1

\* variant: the tile mirrored in x only
getSymmetricTile_xOnly(dot_x, dot_y, tx, ty) ==
  LET cx == tx * 2 + 1
      rx == 2 * dot_x - cx
  IN <<CDiv(rx - 1, 2), ty>>

getSymmetricTile(dot_x, dot_y, tx, ty) ==
  LET cx == tx * 2 + 1
      cy == ty * 2 + 1
      rx == 2 * dot_x - cx
      ry == 2 * dot_y - cy
  IN <<CDiv(rx - 1, 2), CDiv(ry - 1, 2)>>

touchesDot(dot_x, dot_y, tx, ty) ==
  LET cx == tx * 2 + 1
      cy == ty * 2 + 1
  IN Abs(cx - dot_x) <= 1 /\ Abs(cy - dot_y) <= 1

\* one independent word per (cell, dot)
initZobrist(cells, nd) ==
  [i \in 0 .. cells - 1 |-> [j \in 0 .. nd - 1 |-> {i * nd + j}]]

\* s with tile (tx,ty) given to dot d: grid, hash and counter updated
Assign(p, zob, s, tx, ty, d) ==
  [grid |-> [s.grid EXCEPT ![<<tx, ty>>] = d],
   hash |-> XorHash(s.hash, zob[ty * p.w + tx][d]),
   filledCount |-> s.filledCount + 1]

\* variant: the last dot left unchecked
allDotsUsed_skipLast(p, s) ==
  LET used == [d \in 0 .. NDots(p) - 1 |->
                 \E t \in Tiles(p.w, p.h) :
                    s.grid[t] >= 0 /\ s.grid[t] < NDots(p) /\ s.grid[t] = d]
  IN \A d \in 0 .. NDots(p) - 2 : used[d]

allDotsUsed(p, s) ==
  LET used == [d \in 0 .. NDots(p) - 1 |->
                 \E t \in Tiles(p.w, p.h) :
                    s.grid[t] >= 0 /\ s.grid[t] < NDots(p) /\ s.grid[t] = d]
  IN \A d \in 0 .. NDots(p) - 1 : used[d]

\* ------------------------------------------------- seeding (C++ drivers)
\* variant: a tile owned by another dot passes
tryFill_noConflict(p, zob, s, tx, ty, d) ==
  IF ~inTileBounds(p, tx, ty) THEN [ok |-> TRUE, s |-> s]
  ELSE IF s.grid[<<tx, ty>>] = -1
       THEN [ok |-> TRUE, s |-> Assign(p, zob, s, tx, ty, d)]
       ELSE [ok |-> TRUE, s |-> s]

tryFill(p, zob, s, tx, ty, d) ==
  IF ~inTileBounds(p, tx, ty) THEN [ok |-> TRUE, s |-> s]
  ELSE IF s.grid[<<tx, ty>>] = -1
       THEN [ok |-> TRUE, s |-> Assign(p, zob, s, tx, ty, d)]
       ELSE [ok |-> s.grid[<<tx, ty>>] = d, s |-> s]

\* the tryFill calls seedForcedTiles makes for dot d, in order
ForcedTiles(dx, dy) ==
  LET oddx == (dx % 2) # 0
      oddy == (dy % 2) # 0
  IN IF oddx /\ oddy
     THEN << <<CDiv(dx - 1, 2), CDiv(dy - 1, 2)>> >>
     ELSE IF oddx /\ ~oddy
     THEN << <<CDiv(dx - 1, 2), CDiv(dy, 2) - 1>>,
             <<CDiv(dx - 1, 2), CDiv(dy, 2)>> >>
     ELSE IF ~oddx /\ oddy
     THEN << <<CDiv(dx, 2) - 1, CDiv(dy - 1, 2)>>,
             <<CDiv(dx, 2), CDiv(dy - 1, 2)>> >>
     ELSE << <<CDiv(dx, 2) - 1, CDiv(dy, 2) - 1>>,
             <<CDiv(dx, 2) - 1, CDiv(dy, 2)>>,
             <<CDiv(dx, 2), CDiv(dy, 2) - 1>>,
             <<CDiv(dx, 2), CDiv(dy, 2)>> >>

RECURSIVE seedFrom(_, _, _, _, _)
seedFrom(p, zob, s, d, k) ==
  IF d >= NDots(p) THEN [ok |-> TRUE, s |-> s]
  ELSE LET ft == ForcedTiles(DotAt(p, d).x, DotAt(p, d).y) IN
    IF k > Len(ft) THEN seedFrom(p, zob, s, d + 1, 1)
    ELSE LET r == tryFill(p, zob, s, ft[k][1], ft[k][2], d) IN
      IF ~r.ok THEN [ok |-> FALSE, s |-> r.s]
      ELSE seedFrom(p, zob, r.s, d, k + 1)

seedForcedTiles(p, zob, s) == seedFrom(p, zob, s, 0, 1)


\* ------------------------------------------------------ C++ BFS driver
\* Solver::solve, body of the dir loop for tile (x,y) and direction k:
\* <<next>> when a successor is built, <<>> otherwise
Dirs == << <<1, 0>>, <<-1, 0>>, <<0, 1>>, <<0, -1>> >>

cppCandidate(p, zob, s, x, y, k) ==
  IF s.grid[<<x, y>>] = -1 THEN <<>>
  ELSE LET d  == s.grid[<<x, y>>]
           dx == DotAt(p, d).x
           dy == DotAt(p, d).y
           nx == x + Dirs[k][1]
           ny == y + Dirs[k][2]
       IN IF ~isValidTile(p, s, nx, ny) THEN <<>>
          ELSE LET sym  == getSymmetricTile(dx, dy, nx, ny)
                   sx   == sym[1]
                   sy   == sym[2]
                   next == Assign(p, zob, s, nx, ny, d)
               IN IF isValidTile(p, s, sx, sy) \/ (nx = sx /\ ny = sy)
                  THEN IF nx # sx \/ ny # sy
                       THEN IF next.grid[<<sx, sy>>] = -1
                            THEN <<Assign(p, zob, next, sx, sy, d)>>
                            ELSE <<>>
                       ELSE <<next>>
                  ELSE <<>>

\* the candidate at position i of the y / x / dir scan of Solver::solve
cppScanCandidate(p, zob, s, i) ==
  cppCandidate(p, zob, s, (i \div 4) % p.w, i \div (4 * p.w), (i % 4) + 1)

\* the y / x / dir loops of Solver::solve from scan position i on, pushing in
\* scan order every successor whose hash visited_.insert() reports as new:
\* not in the set before the loop and not inserted earlier in the loop
cppExpand(p, zob, s, i, q, vis) ==
  LET n == p.w * p.h * 4
      c == [j \in i .. n - 1 |-> cppScanCandidate(p, zob, s, j)]
      fresh(j) == /\ c[j] # <<>>
                  /\ c[j][1].hash \notin vis
                  /\ \A k \in i .. j - 1 :
                        c[k] = <<>> \/ c[k][1].hash # c[j][1].hash
      kept == SelectSeq([j \in 1 .. n - i |-> i + j - 1], fresh)
  IN [queue   |-> q \o [k \in 1 .. Len(kept) |-> c[kept[k]][1]],
      visited |-> vis \cup {c[kept[k]][1].hash : k \in 1 .. Len(kept)}]

\* -------------------------------------------------------- C BFS driver
is_valid_tile(p, s, tx, ty) ==
  IF tx < 0 \/ tx >= p.w \/ ty < 0 \/ ty >= p.h THEN FALSE
  ELSE s.grid[<<tx, ty>>] = -1

get_symmetric_tile(dot_x, dot_y, tx, ty) ==
  LET cx == tx * 2 + 1
      cy == ty * 2 + 1
      rx == 2 * dot_x - cx
      ry == 2 * dot_y - cy
  IN <<CDiv(rx - 1, 2), CDiv(ry - 1, 2)>>

touches_dot(dot_x, dot_y, tx, ty) ==
  LET cx == tx * 2 + 1
      cy == ty * 2 + 1
  IN Abs(cx - dot_x) <= 1 /\ Abs(cy - dot_y) <= 1

\* zobrist_table[idx][d]; the C table is a global of MAX_H*MAX_W rows
ZWord(p, zob, idx, d) ==
  IF idx \in DOMAIN zob THEN zob[idx][d] ELSE {idx * NDots(p) + d}

\* solve(): the pre-fill loop, from dot i on.  Only dots on a tile centre
\* are seeded.
RECURSIVE c_prefill(_, _, _, _)
c_prefill(p, zob, s, i) ==
  IF i >= NDots(p) THEN [ok |-> TRUE, s |-> s]
  ELSE LET dx == DotAt(p, i).x
           dy == DotAt(p, i).y
       IN IF dx % 2 # 0 /\ dy % 2 # 0
          THEN LET tx == CDiv(dx - 1, 2)
                   ty == CDiv(dy - 1, 2)
               IN IF <<tx, ty>> \in DOMAIN s.grid
                  THEN IF s.grid[<<tx, ty>>] = -1
                       THEN c_prefill(p, zob, Assign(p, zob, s, tx, ty, i), i + 1)
                       ELSE [ok |-> FALSE, s |-> s]
                  ELSE \* a cell of grid[MAX_H][MAX_W] outside the w x h board
                       c_prefill(p, zob,
                         [grid |-> (<<tx, ty>> :> i) @@ s.grid,
                          filledCount |-> s.filledCount + 1,
                          hash |-> XorHash(s.hash, ZWord(p, zob, ty * p.w + tx, i))],
                         i + 1)
          ELSE c_prefill(p, zob, s, i + 1)

\* the successor built for "give (tx,ty) and its mirror image to d"
c_pairMove(p, zob, s, d, tx, ty) ==
  LET sym   == get_symmetric_tile(DotAt(p, d).x, DotAt(p, d).y, tx, ty)
      sym_x == sym[1]
      sym_y == sym[2]
      next  == Assign(p, zob, s, tx, ty, d)
  IN IF is_valid_tile(p, s, sym_x, sym_y) \/ (tx = sym_x /\ ty = sym_y)
     THEN IF tx # sym_x \/ ty # sym_y
          THEN IF next.grid[<<sym_x, sym_y>>] = -1
               THEN <<Assign(p, zob, next, sym_x, sym_y, d)>>
               ELSE <<>>
          ELSE <<next>>
     ELSE <<>>

\* neighbour k of tile (x,y) of dot d
c_neighbourCandidate(p, zob, s, d, x, y, k) ==
  IF s.grid[<<x, y>>] # d THEN <<>>
  ELSE LET nx == x + Dirs[k][1]
           ny == y + Dirs[k][2]
       IN IF is_valid_tile(p, s, nx, ny)
          THEN c_pairMove(p, zob, s, d, nx, ny) ELSE <<>>

\* j-th tile (0..8) of the 3x3 window around the dot; the has_tiles and the
\* !has_tiles arm run the same loop
c_touchCandidate(p, zob, s, d, j) ==
  LET dx  == DotAt(p, d).x
      dy  == DotAt(p, d).y
      ctx == CDiv(dx - 1, 2)
      cty == CDiv(dy - 1, 2)
      ty  == cty - 1 + (j \div 3)
      tx  == ctx - 1 + (j % 3)
  IN IF is_valid_tile(p, s, tx, ty) /\ touches_dot(dx, dy, tx, ty)
     THEN c_pairMove(p, zob, s, d, tx, ty) ELSE <<>>

\* the candidate at position i of dot d's scan: the neighbour loop over the
\* board first, the 3x3 window around the dot after it
c_scanCandidate(p, zob, s, d, i) ==
  IF i < p.w * p.h * 4
  THEN c_neighbourCandidate(p, zob, s, d, (i \div 4) % p.w,
                            i \div (4 * p.w), (i % 4) + 1)
  ELSE c_touchCandidate(p, zob, s, d, i - p.w * p.h * 4)

\* the "for d" loop of solve() from (dot d, position i of that dot's scan):
\* every successor that is_visited() does not know is enqueued and added,
\* in scan order
c_expand(p, zob, s, d, i, q, vis) ==
  LET m == p.w * p.h * 4 + 9
      n == NDots(p) * m
      c == [j \in d * m + i .. n - 1 |->
              c_scanCandidate(p, zob, s, j \div m, j % m)]
      fresh(j) == /\ c[j] # <<>>
                  /\ c[j][1].hash \notin vis
                  /\ \A k \in d * m + i .. j - 1 :
                        c[k] = <<>> \/ c[k][1].hash # c[j][1].hash
      kept == SelectSeq([j \in 1 .. n - (d * m + i) |-> d * m + i + j - 1], fresh)
  IN [queue   |-> q \o [k \in 1 .. Len(kept) |-> c[kept[k]][1]],
      visited |-> vis \cup {c[kept[k]][1].hash : k \in 1 .. Len(kept)}]

\* "Verify all dots are used" of the C drivers
c_all_dots_used(p, s) ==
  LET dot_used == [i \in 0 .. NDots(p) - 1 |->
                     \E t \in Tiles(p.w, p.h) : s.grid[t] >= 0 /\ s.grid[t] = i]
  IN \A i \in 0 .. NDots(p) - 1 : dot_used[i]

\* -------------------------------------------------- in-place DFS driver
\* Move{tx, ty, d, sx, sy, symmetric_was_empty}
MoveRec(x, y, d, sx, sy, e) ==
  [tx |-> x, ty |-> y, d |-> d, sx |-> sx, sy |-> sy, symmetric_was_empty |-> e]

already_added(moves, x, y, d) ==
  \E j \in 1 .. Len(moves) :
     moves[j].tx = x /\ moves[j].ty = y /\ moves[j].d = d

\* variant: a tile whose mirror image lies off the board is taken alone
seqMoveCandidate_offBoardAlone(p, s, i) ==
  LET y  == i \div (4 * p.w)
      x  == (i \div 4) % p.w
      k  == (i % 4) + 1
      nx == x + Dirs[k][1]
      ny == y + Dirs[k][2]
  IN IF s.grid[<<x, y>>] = -1 /\ inTileBounds(p, nx, ny)
        /\ s.grid[<<nx, ny>>] # -1
     THEN LET d   == s.grid[<<nx, ny>>]
              sym == getSymmetricTile(DotAt(p, d).x, DotAt(p, d).y, x, y)
              sx  == sym[1]
              sy  == sym[2]
          IN IF ~inTileBounds(p, sx, sy)
             THEN <<MoveRec(x, y, d, x, y, FALSE)>>
             ELSE IF isValidTile(p, s, sx, sy) \/ (sx = x /\ sy = y)
                  THEN <<MoveRec(x, y, d, sx, sy, s.grid[<<sx, sy>>] = -1)>>
                  ELSE <<>>
     ELSE <<>>

\* dfs() of seq_solver_dfs.cpp, body of the move-generation loops at scan
\* position i (tile (x,y) empty, neighbour in direction k filled): <<move>>
\* when the move is legal, <<>> otherwise
seqMoveCandidate(p, s, i) ==
  LET y  == i \div (4 * p.w)
      x  == (i \div 4) % p.w
      k  == (i % 4) + 1
      nx == x + Dirs[k][1]
      ny == y + Dirs[k][2]
  IN IF s.grid[<<x, y>>] = -1 /\ inTileBounds(p, nx, ny)
        /\ s.grid[<<nx, ny>>] # -1
     THEN LET d   == s.grid[<<nx, ny>>]
              sym == getSymmetricTile(DotAt(p, d).x, DotAt(p, d).y, x, y)
              sx  == sym[1]
              sy  == sym[2]
          IN IF isValidTile(p, s, sx, sy) \/ (sx = x /\ sy = y)
             THEN LET sym_empty == (s.grid[<<sx, sy>>] = -1) IN
                  IF ~sym_empty /\ s.grid[<<sx, sy>>] # d
                  THEN <<>>
                  ELSE <<MoveRec(x, y, d, sx, sy, sym_empty)>>
             ELSE <<>>
     ELSE <<>>

\* the move list dfs() builds from scan position i on: each legal move once,
\* in scan order (already_added drops a later move of the same tile and dot)
seqGenerateMoves(p, s, i, moves) ==
  LET n == p.w * p.h * 4
      c == [j \in i .. n - 1 |-> seqMoveCandidate(p, s, j)]
      fresh(j) == /\ c[j] # <<>>
                  /\ ~already_added(moves, c[j][1].tx, c[j][1].ty, c[j][1].d)
                  /\ \A k \in i .. j - 1 :
                        ~already_added(c[k], c[j][1].tx, c[j][1].ty, c[j][1].d)
      kept == SelectSeq([j \in 1 .. n - i |-> i + j - 1], fresh)
  IN moves \o [k \in 1 .. Len(kept) |-> c[kept[k]][1]]

\* generateMoves() of openmp_solver_dfs.cpp, body of the loops at position i
ompMoveCandidate(p, s, i) ==
  LET y  == i \div (4 * p.w)
      x  == (i \div 4) % p.w
      k  == (i % 4) + 1
      nx == x + Dirs[k][1]
      ny == y + Dirs[k][2]
  IN IF s.grid[<<x, y>>] = -1 /\ inTileBounds(p, nx, ny)
        /\ s.grid[<<nx, ny>>] # -1
     THEN LET d   == s.grid[<<nx, ny>>]
              sym == getSymmetricTile(DotAt(p, d).x, DotAt(p, d).y, x, y)
              sx  == sym[1]
              sy  == sym[2]
          IN IF ~inTileBounds(p, sx, sy)
             THEN <<>>
             ELSE LET sym_empty == (s.grid[<<sx, sy>>] = -1) IN
                  IF ~sym_empty /\ s.grid[<<sx, sy>>] # d
                  THEN <<>>
                  ELSE <<MoveRec(x, y, d, sx, sy, sym_empty)>>
     ELSE <<>>

\* generateMoves() of openmp_solver_dfs.cpp: each legal move once, in scan
\* order
generateMoves(p, s, i, moves) ==
  LET n == p.w * p.h * 4
      c == [j \in i .. n - 1 |-> ompMoveCandidate(p, s, j)]
      fresh(j) == /\ c[j] # <<>>
                  /\ ~already_added(moves, c[j][1].tx, c[j][1].ty, c[j][1].d)
                  /\ \A k \in i .. j - 1 :
                        ~already_added(c[k], c[j][1].tx, c[j][1].ty, c[j][1].d)
      kept == SelectSeq([j \in 1 .. n - i |-> i + j - 1], fresh)
  IN moves \o [k \in 1 .. Len(kept) |-> c[kept[k]][1]]

\* variant: the counter of filled tiles is left as it was
applyMove_keepsCount(p, zob, s, m) ==
  LET s1 == [grid |-> [s.grid EXCEPT ![<<m.tx, m.ty>>] = m.d],
             hash |-> XorHash(s.hash, zob[m.ty * p.w + m.tx][m.d]),
             filledCount |-> s.filledCount]
  IN IF (m.tx # m.sx \/ m.ty # m.sy) /\ m.symmetric_was_empty
     THEN [grid |-> [s1.grid EXCEPT ![<<m.sx, m.sy>>] = m.d],
           hash |-> XorHash(s1.hash, zob[m.sy * p.w + m.sx][m.d]),
           filledCount |-> s.filledCount]
     ELSE s1

applyMove(p, zob, s, m) ==
  LET s1 == [grid |-> [s.grid EXCEPT ![<<m.tx, m.ty>>] = m.d],
             hash |-> XorHash(s.hash, zob[m.ty * p.w + m.tx][m.d]),
             filledCount |-> s.filledCount + 1]
  IN IF (m.tx # m.sx \/ m.ty # m.sy) /\ m.symmetric_was_empty
     THEN [grid |-> [s1.grid EXCEPT ![<<m.sx, m.sy>>] = m.d],
           hash |-> XorHash(s1.hash, zob[m.sy * p.w + m.sx][m.d]),
           filledCount |-> s1.filledCount + 1]
     ELSE s1

\* variant: the partner tile is left assigned
undoMove_leavesPartner(p, zob, s, m) ==
  LET s1 == [grid |-> [s.grid EXCEPT ![<<m.tx, m.ty>>] = -1],
             hash |-> XorHash(s.hash, zob[m.ty * p.w + m.tx][m.d]),
             filledCount |-> s.filledCount - 1]
  IN IF (m.tx # m.sx \/ m.ty # m.sy) /\ m.symmetric_was_empty
     THEN [grid |-> s1.grid,
           hash |-> XorHash(s1.hash, zob[m.sy * p.w + m.sx][m.d]),
           filledCount |-> s1.filledCount - 1]
     ELSE s1

\* variant: the partner's word is left in the hash
undoMove_keepsPartnerWord(p, zob, s, m) ==
  LET s1 == [grid |-> [s.grid EXCEPT ![<<m.tx, m.ty>>] = -1],
             hash |-> XorHash(s.hash, zob[m.ty * p.w + m.tx][m.d]),
             filledCount |-> s.filledCount - 1]
  IN IF (m.tx # m.sx \/ m.ty # m.sy) /\ m.symmetric_was_empty
     THEN [grid |-> [s1.grid EXCEPT ![<<m.sx, m.sy>>] = -1],
           hash |-> s1.hash,
           filledCount |-> s1.filledCount - 1]
     ELSE s1

undoMove(p, zob, s, m) ==
  LET s1 == [grid |-> [s.grid EXCEPT ![<<m.tx, m.ty>>] = -1],
             hash |-> XorHash(s.hash, zob[m.ty * p.w + m.tx][m.d]),
             filledCount |-> s.filledCount - 1]
  IN IF (m.tx # m.sx \/ m.ty # m.sy) /\ m.symmetric_was_empty
     THEN [grid |-> [s1.grid EXCEPT ![<<m.sx, m.sy>>] = -1],
           hash |-> XorHash(s1.hash, zob[m.sy * p.w + m.sx][m.d]),
           filledCount |-> s1.filledCount - 1]
     ELSE s1

\* ------------------------------------------------------------ the program
\* no generator runs
NoGame == [w |-> 0, h |-> 0, sx |-> 0, sy |-> 0, grid |-> <<>>, ndots |-> 0,
           dots |-> <<>>]

\* no cell
NoSpace == <<-1, -1>>

NoPuzzle == [w |-> 0, h |-> 0, sx |-> 0, sy |-> 0, dots |-> <<>>]

\* no first run has been recorded
NoFirstRun ==
  [clock |-> 0, seed |-> <<>>, draws |-> <<>>, printed |-> <<>>, gpc |-> "idle"]

\* no call of the visited set's test-and-insert is being followed
NoCalls ==
  /\ hash_locks = {}
  /\ buckets = <<>>
  /\ calls = <<>>

\* no generator command line is being run
NoRun ==
  /\ cmdline = [w |-> 0, h |-> 0, seedGiven |-> FALSE, seed |-> 0, count |-> 0]
  /\ clock = 0
  /\ runNo = 0
  /\ rs = <<{}, {}, {}, {}>>
  /\ scratch = <<>>
  /\ draws = <<>>
  /\ printed = <<>>
  /\ firstRun = NoFirstRun

Init ==
  /\ driver \in Drivers
  /\ gameId \in GameIds
  /\ maxThreads \in (IF driver = "omp_dfs" THEN 1 .. MaxThreads ELSE {1})
  /\ pc = "parse"
  /\ puzzle = NoPuzzle
  /\ zobrist = initZobrist(0, 0)
  /\ cur = EmptyState(0, 0)
  /\ queue = <<>>
  /\ visited = {}
  /\ stack = <<>>
  /\ retval = FALSE
  /\ iterations = 0
  /\ seedFailed = FALSE
  /\ stderrMsg = FALSE
  /\ verdict = "pending"
  /\ solution = EmptyGrid(0, 0)
  /\ threads = <<>>
  /\ found = FALSE
  /\ parSolution = EmptyGrid(0, 0)
  /\ rootMoves = <<>>
  /\ nextRoot = 1
  /\ commits = 0
  /\ level = <<>>
  /\ levelI = 0
  /\ NoCalls
  /\ gpc = "idle"
  /\ state = NoGame
  /\ live = {}
  /\ quiet = 0
  /\ plan = <<>>
  /\ loopI = 0
  /\ divByZero = "trap"
  /\ desc = <<>>
  /\ fnDot = NoSpace
  /\ fnToadd = <<>>
  /\ fnRet = -1
  /\ NoRun

\* main(): decode the Game ID and construct the solver
Parse ==
  /\ pc = "parse"
  /\ LET p == IF driver = "c_bfs" THEN parse_game_id(gameId)
              ELSE fromGameId(gameId)
     IN /\ puzzle' = p
        /\ zobrist' = initZobrist(p.w * p.h, Len(p.dots))
        /\ cur' = EmptyState(p.w, p.h)
        /\ parSolution' = IF driver = "omp_dfs" THEN <<>> ELSE parSolution
  /\ pc' = "seed"
  /\ UNCHANGED <<threads, found, rootMoves, nextRoot, levelVars, genVars, lockVars, driver, gameId,
                 maxThreads, queue, visited, stack, retval,
                 iterations, seedFailed, stderrMsg, verdict, solution>>

\* Solver::solve (seq_solver.cpp) up to the while loop
CppBfsSeed ==
  /\ pc = "seed" /\ driver = "cpp_bfs"
  /\ LET r == seedForcedTiles(puzzle, zobrist, cur) IN
       /\ cur' = r.s
       /\ IF r.ok
          THEN /\ queue' = <<r.s>>
               /\ visited' = {r.s.hash}
               /\ pc' = "bfs"
               /\ UNCHANGED <<seedFailed, stderrMsg, verdict>>
          ELSE /\ seedFailed' = TRUE
               /\ stderrMsg' = TRUE
               /\ verdict' = "no_solution"
               /\ pc' = "done"
               /\ UNCHANGED <<queue, visited>>
  /\ UNCHANGED <<parVars, genVars, lockVars, driver, gameId, maxThreads, puzzle, zobrist, stack, retval,
                 iterations, solution>>

\* one iteration of the while loop that pops a full state
CppBfsFull ==
  /\ pc = "bfs" /\ driver = "cpp_bfs" /\ queue # <<>>
  /\ LET s == Head(queue) IN
       /\ s.filledCount = puzzle.w * puzzle.h
       /\ iterations' = iterations + 1
       /\ IF allDotsUsed(puzzle, s)
          THEN /\ verdict' = "solved"
               /\ solution' = s.grid
               /\ pc' = "done"
               /\ queue' = Tail(queue)
          ELSE /\ queue' = Tail(queue)
               /\ UNCHANGED <<verdict, solution, pc>>
  /\ UNCHANGED <<parVars, genVars, lockVars, driver, gameId, maxThreads, puzzle, zobrist, cur, visited,
                 stack, retval, seedFailed, stderrMsg>>

\* one iteration of the while loop that pops and expands a partial state
CppBfsExpand ==
  /\ pc = "bfs" /\ driver = "cpp_bfs" /\ queue # <<>>
  /\ LET s == Head(queue) IN
       /\ s.filledCount # puzzle.w * puzzle.h
       /\ iterations' = iterations + 1
       /\ LET r == cppExpand(puzzle, zobrist, s, 0, Tail(queue), visited) IN
            /\ queue' = r.queue
            /\ visited' = r.visited
  /\ UNCHANGED <<parVars, genVars, lockVars, driver, gameId, maxThreads, pc, puzzle, zobrist, cur, stack,
                 retval, seedFailed, stderrMsg, verdict, solution>>

\* the queue ran empty: return std::nullopt, main prints "No solution found."
CppBfsExhausted ==
  /\ pc = "bfs" /\ driver = "cpp_bfs" /\ queue = <<>>
  /\ verdict' = "no_solution"
  /\ pc' = "done"
  /\ UNCHANGED <<parVars, genVars, lockVars, driver, gameId, maxThreads, puzzle, zobrist, cur, queue,
                 visited, stack, retval, iterations, seedFailed, stderrMsg,
                 solution>>

\* solve() of seq_solver.c up to the while loop
CBfsSeed ==
  /\ pc = "seed" /\ driver = "c_bfs"
  /\ LET r == c_prefill(puzzle, zobrist, cur, 0) IN
       /\ cur' = r.s
       /\ IF r.ok
          THEN /\ queue' = <<r.s>>
               /\ visited' = {r.s.hash}
               /\ pc' = "bfs"
               /\ UNCHANGED <<seedFailed, verdict>>
          ELSE /\ seedFailed' = TRUE
               /\ verdict' = "error"
               /\ pc' = "done"
               /\ UNCHANGED <<queue, visited>>
  /\ UNCHANGED <<parVars, genVars, lockVars, driver, gameId, maxThreads, puzzle, zobrist, stack, retval,
                 iterations, stderrMsg, solution>>

CBfsFull ==
  /\ pc = "bfs" /\ driver = "c_bfs" /\ queue # <<>>
  /\ LET s == Head(queue) IN
       /\ s.filledCount = puzzle.w * puzzle.h
       /\ iterations' = iterations + 1
       /\ IF c_all_dots_used(puzzle, s)
          THEN /\ verdict' = "solved"
               /\ solution' = s.grid
               /\ pc' = "done"
               /\ queue' = Tail(queue)
          ELSE /\ queue' = Tail(queue)
               /\ UNCHANGED <<verdict, solution, pc>>
  /\ UNCHANGED <<parVars, genVars, lockVars, driver, gameId, maxThreads, puzzle, zobrist, cur, visited,
                 stack, retval, seedFailed, stderrMsg>>

CBfsExpand ==
  /\ pc = "bfs" /\ driver = "c_bfs" /\ queue # <<>>
  /\ LET s == Head(queue) IN
       /\ s.filledCount # puzzle.w * puzzle.h
       /\ iterations' = iterations + 1
       /\ LET r == c_expand(puzzle, zobrist, s, 0, 0, Tail(queue), visited) IN
            /\ queue' = r.queue
            /\ visited' = r.visited
  /\ UNCHANGED <<parVars, genVars, lockVars, driver, gameId, maxThreads, pc, puzzle, zobrist, cur, stack,
                 retval, seedFailed, stderrMsg, verdict, solution>>

CBfsExhausted ==
  /\ pc = "bfs" /\ driver = "c_bfs" /\ queue = <<>>
  /\ verdict' = "no_solution"
  /\ pc' = "done"
  /\ UNCHANGED <<parVars, genVars, lockVars, driver, gameId, maxThreads, puzzle, zobrist, cur, queue,
                 visited, stack, retval, iterations, seedFailed, stderrMsg,
                 solution>>

\* Solver::solve of seq_solver_dfs.cpp up to the call of dfs()
SeqDfsSeed ==
  /\ pc = "seed" /\ driver = "seq_dfs"
  /\ LET r == seedForcedTiles(puzzle, zobrist, cur) IN
       /\ cur' = r.s
       /\ IF r.ok
          THEN /\ visited' = {r.s.hash}
               /\ pc' = "dfs_enter"
               /\ UNCHANGED <<seedFailed, verdict>>
          ELSE /\ seedFailed' = TRUE
               /\ verdict' = "no_solution"
               /\ pc' = "done"
               /\ UNCHANGED visited
  /\ UNCHANGED <<parVars, genVars, lockVars, driver, gameId, maxThreads, puzzle, zobrist, queue, stack,
                 retval, iterations, stderrMsg, solution>>

\* entry of dfs(): goal test, move generation
SeqDfsEnter ==
  /\ pc = "dfs_enter" /\ driver = "seq_dfs"
  /\ iterations' = iterations + 1
  /\ IF cur.filledCount = puzzle.w * puzzle.h
     THEN /\ retval' = allDotsUsed(puzzle, cur)
          /\ pc' = "dfs_return"
          /\ UNCHANGED stack
     ELSE LET moves == seqGenerateMoves(puzzle, cur, 0, <<>>) IN
          IF moves = <<>>
          THEN /\ retval' = FALSE
               /\ pc' = "dfs_return"
               /\ UNCHANGED stack
          ELSE /\ stack' = Append(stack, [moves |-> moves, i |-> 1])
               /\ pc' = "dfs_loop"
               /\ UNCHANGED retval
  /\ UNCHANGED <<parVars, genVars, lockVars, driver, gameId, maxThreads, puzzle, zobrist, cur, queue,
                 visited, seedFailed, stderrMsg, verdict, solution>>

\* for (m : moves): applyMove(m)
SeqDfsApply ==
  /\ pc = "dfs_loop" /\ driver = "seq_dfs"
  /\ LET f == stack[Len(stack)] IN
       /\ f.i <= Len(f.moves)
       /\ cur' = applyMove(puzzle, zobrist, cur, f.moves[f.i])
  /\ pc' = "dfs_visit"
  /\ UNCHANGED <<parVars, genVars, lockVars, driver, gameId, maxThreads, puzzle, zobrist, queue, visited,
                 stack, retval, iterations, seedFailed, stderrMsg, verdict,
                 solution>>

\* the visited test after applyMove: recurse into a new state or backtrack
SeqDfsVisit ==
  /\ pc = "dfs_visit" /\ driver = "seq_dfs"
  /\ IF cur.hash \notin visited
     THEN /\ visited' = visited \cup {cur.hash}
          /\ pc' = "dfs_enter"
     ELSE /\ pc' = "dfs_undo"
          /\ UNCHANGED visited
  /\ UNCHANGED <<parVars, genVars, lockVars, driver, gameId, maxThreads, puzzle, zobrist, cur, queue,
                 stack, retval, iterations, seedFailed, stderrMsg, verdict,
                 solution>>

\* Backtrack: undoMove(m), next move
SeqDfsUndo ==
  /\ pc = "dfs_undo" /\ driver = "seq_dfs"
  /\ LET f == stack[Len(stack)] IN
       /\ cur' = undoMove(puzzle, zobrist, cur, f.moves[f.i])
       /\ stack' = [stack EXCEPT ![Len(stack)].i = f.i + 1]
  /\ pc' = "dfs_loop"
  /\ UNCHANGED <<parVars, genVars, lockVars, driver, gameId, maxThreads, puzzle, zobrist, queue, visited,
                 retval, iterations, seedFailed, stderrMsg, verdict, solution>>

\* the move list is used up: return false
SeqDfsLoopEnd ==
  /\ pc = "dfs_loop" /\ driver = "seq_dfs"
  /\ stack[Len(stack)].i > Len(stack[Len(stack)].moves)
  /\ stack' = SubSeq(stack, 1, Len(stack) - 1)
  /\ retval' = FALSE
  /\ pc' = "dfs_return"
  /\ UNCHANGED <<parVars, genVars, lockVars, driver, gameId, maxThreads, puzzle, zobrist, cur, queue,
                 visited, iterations, seedFailed, stderrMsg, verdict, solution>>

\* a dfs() call has returned retval: to solve()/main at the root, else to
\* the calling dfs() frame ("if (dfs()) return true;")
SeqDfsReturn ==
  /\ pc = "dfs_return" /\ driver = "seq_dfs"
  /\ IF stack = <<>>
     THEN /\ verdict' = IF retval THEN "solved" ELSE "no_solution"
          /\ solution' = IF retval THEN cur.grid ELSE solution
          /\ pc' = "done"
          /\ UNCHANGED stack
     ELSE IF retval
          THEN /\ stack' = SubSeq(stack, 1, Len(stack) - 1)
               /\ UNCHANGED <<pc, verdict, solution>>
          ELSE /\ pc' = "dfs_undo"
               /\ UNCHANGED <<stack, verdict, solution>>
  /\ UNCHANGED <<parVars, genVars, lockVars, driver, gameId, maxThreads, puzzle, zobrist, cur, queue,
                 visited, retval, iterations, seedFailed, stderrMsg>>

\* ------------------------------------------- root-split parallel DFS
Thread(tpc, st, lseen) ==
  [pc |-> tpc, s |-> st, stack |-> <<>>, retval |-> FALSE, local_seen |-> lseen]

\* Solver::solve of openmp_solver_dfs.cpp up to the parallel region (or, with
\* one thread, up to the fallback call of dfs on the solver itself)
OmpSeed ==
  /\ pc = "seed" /\ driver = "omp_dfs"
  /\ LET r == seedForcedTiles(puzzle, zobrist, cur) IN
       /\ cur' = r.s
       /\ IF ~r.ok
          THEN /\ seedFailed' = TRUE
               /\ verdict' = "no_solution"
               /\ pc' = "done"
               /\ UNCHANGED <<visited, rootMoves, threads>>
          ELSE /\ visited' = visited \cup {r.s.hash}
               /\ UNCHANGED seedFailed
               /\ IF maxThreads > 1
                  THEN LET root_moves == generateMoves(puzzle, r.s, 0, <<>>) IN
                       /\ rootMoves' = root_moves
                       /\ IF root_moves = <<>>
                          THEN /\ verdict' = "no_solution"
                               /\ pc' = "done"
                               /\ UNCHANGED threads
                          ELSE /\ threads' = [t \in 0 .. maxThreads - 1 |->
                                                Thread("grab", r.s, {})]
                               /\ pc' = "parallel"
                               /\ UNCHANGED verdict
                  ELSE /\ threads' = [t \in {0} |-> Thread("dfs_enter", r.s, {})]
                       /\ pc' = "fallback"
                       /\ UNCHANGED <<verdict, rootMoves>>
  /\ UNCHANGED <<genVars, lockVars, driver, gameId, maxThreads, puzzle, zobrist, queue, stack,
                 retval, iterations, stderrMsg, solution, found, parSolution,
                 nextRoot, levelVars>>

OmpUnchanged ==
  UNCHANGED <<genVars, lockVars, driver, gameId, maxThreads, pc, puzzle, zobrist, cur, queue,
              stack, retval, seedFailed, stderrMsg, verdict, solution,
              rootMoves>>

\* variant: the load never sees the flag set
found_load_stale(flag) == FALSE

\* found.load(std::memory_order_relaxed)
found_load(flag) == flag

\* a thread takes the next iteration of the omp for loop: skip it when found
\* is set, else copy the solver and apply the root move
OmpGrab(t) ==
  /\ t \in DOMAIN threads
  /\ pc = "parallel" /\ driver = "omp_dfs" /\ threads[t].pc = "grab"
  /\ IF nextRoot > Len(rootMoves)
     THEN /\ threads' = [threads EXCEPT ![t].pc = "finished"]
          /\ UNCHANGED nextRoot
     ELSE /\ nextRoot' = nextRoot + 1
          /\ IF found_load(found)
             THEN UNCHANGED threads
             ELSE threads' = [threads EXCEPT
                    ![t].s = applyMove(puzzle, zobrist, cur, rootMoves[nextRoot]),
                    ![t].stack = <<>>,
                    ![t].pc = "root_visit"]
  /\ UNCHANGED <<visited, iterations, found, parSolution, levelVars>>
  /\ OmpUnchanged

\* Shared::insertIfNew under the lock: [ok, shared]
insertIfNew(h, shared) ==
  IF h \in shared THEN [ok |-> FALSE, shared |-> shared]
  ELSE [ok |-> TRUE, shared |-> shared \cup {h}]

\* variant: the shared set is asked first, the local cache afterwards
tryMarkVisitedWithLocal_sharedFirst(h, local_seen, shared) ==
  LET r == insertIfNew(h, shared) IN
  IF ~r.ok
  THEN [ok |-> FALSE, local_seen |-> local_seen, shared |-> r.shared,
        queried |-> TRUE]
  ELSE [ok |-> h \notin local_seen, local_seen |-> local_seen \cup {h},
        shared |-> r.shared, queried |-> TRUE]

\* tryMarkVisitedWithLocal: local cache first, then the locked shared set;
\* queried tells whether tryMarkVisited was called
tryMarkVisitedWithLocal(h, local_seen, shared) ==
  IF h \in local_seen
  THEN [ok |-> FALSE, local_seen |-> local_seen, shared |-> shared,
        queried |-> FALSE]
  ELSE LET r == insertIfNew(h, shared) IN
       IF ~r.ok
       THEN [ok |-> FALSE, local_seen |-> local_seen, shared |-> r.shared,
             queried |-> TRUE]
       ELSE [ok |-> TRUE, local_seen |-> local_seen \cup {h},
             shared |-> r.shared, queried |-> TRUE]

\* "if (!worker.tryMarkVisitedWithLocal(...)) continue;" then worker.dfs(...)
OmpRootVisit(t) ==
  /\ t \in DOMAIN threads
  /\ pc = "parallel" /\ threads[t].pc = "root_visit"
  /\ LET r == tryMarkVisitedWithLocal(threads[t].s.hash, threads[t].local_seen,
                                      visited) IN
       /\ visited' = r.shared
       /\ threads' = [threads EXCEPT ![t].local_seen = r.local_seen,
                                     ![t].pc = IF r.ok THEN "dfs_enter" ELSE "grab"]
  /\ UNCHANGED <<iterations, found, parSolution, nextRoot, levelVars>>
  /\ OmpUnchanged

\* entry of dfs(found, solution, local_seen)
OmpDfsEnter(t) ==
  /\ t \in DOMAIN threads
  /\ pc \in {"parallel", "fallback"} /\ threads[t].pc = "dfs_enter"
  /\ LET th == threads[t] IN
     IF found_load(found)
     THEN /\ threads' = [threads EXCEPT ![t].retval = FALSE, ![t].pc = "dfs_return"]
          /\ UNCHANGED <<found, iterations>>
     ELSE /\ iterations' = iterations + 1
          /\ IF th.s.filledCount = puzzle.w * puzzle.h
             THEN IF ~allDotsUsed(puzzle, th.s)
                  THEN /\ threads' = [threads EXCEPT ![t].retval = FALSE,
                                                     ![t].pc = "dfs_return"]
                       /\ UNCHANGED found
                  ELSE /\ threads' = [threads EXCEPT ![t].pc = "cas"]
                       /\ UNCHANGED found
             ELSE LET moves == generateMoves(puzzle, th.s, 0, <<>>) IN
                  /\ UNCHANGED found
                  /\ IF moves = <<>>
                     THEN threads' = [threads EXCEPT ![t].retval = FALSE,
                                                     ![t].pc = "dfs_return"]
                     ELSE threads' = [threads EXCEPT
                            ![t].stack = Append(@, [moves |-> moves, i |-> 1]),
                            ![t].pc = "dfs_loop"]
  /\ UNCHANGED <<visited, parSolution, nextRoot, levelVars>>
  /\ OmpUnchanged

\* variant: the exchange is always taken to have succeeded
compare_exchange_strong_always(flag) == [ok |-> TRUE, flag |-> TRUE]

\* found.compare_exchange_strong(expected = false, true): [ok, flag]
compare_exchange_strong(flag) == [ok |-> ~flag, flag |-> TRUE]

\* "if (found.compare_exchange_strong(expected, true, ...))": the winner
\* goes on to the critical section, every other thread returns true
OmpCas(t) ==
  /\ t \in DOMAIN threads
  /\ pc \in {"parallel", "fallback"} /\ threads[t].pc = "cas"
  /\ LET r == compare_exchange_strong(found) IN
     /\ found' = r.flag
     /\ threads' = IF r.ok
                   THEN [threads EXCEPT ![t].pc = "commit"]
                   ELSE [threads EXCEPT ![t].retval = TRUE,
                                        ![t].pc = "dfs_return"]
  /\ UNCHANGED <<visited, iterations, parSolution, nextRoot, levelVars>>
  /\ OmpUnchanged

\* the critical section of the thread that won the compare-exchange
OmpCommit(t) ==
  /\ t \in DOMAIN threads
  /\ pc \in {"parallel", "fallback"} /\ threads[t].pc = "commit"
  /\ parSolution' = threads[t].s.grid
  /\ commits' = commits + 1
  /\ threads' = [threads EXCEPT ![t].retval = TRUE, ![t].pc = "dfs_return"]
  /\ UNCHANGED <<visited, iterations, found, nextRoot, level, levelI>>
  /\ OmpUnchanged

\* for (m : moves): leave when found is set, else applyMove(m)
OmpDfsApply(t) ==
  /\ t \in DOMAIN threads
  /\ pc \in {"parallel", "fallback"} /\ threads[t].pc = "dfs_loop"
  /\ LET th == threads[t]
         f  == th.stack[Len(th.stack)]
     IN /\ f.i <= Len(f.moves)
        /\ IF found_load(found)
           THEN threads' = [threads EXCEPT
                  ![t].stack = SubSeq(@, 1, Len(@) - 1),
                  ![t].retval = FALSE,
                  ![t].pc = "dfs_return"]
           ELSE threads' = [threads EXCEPT
                  ![t].s = applyMove(puzzle, zobrist, th.s, f.moves[f.i]),
                  ![t].pc = "dfs_visit"]
  /\ UNCHANGED <<visited, iterations, found, parSolution, nextRoot, levelVars>>
  /\ OmpUnchanged

OmpDfsVisit(t) ==
  /\ t \in DOMAIN threads
  /\ pc \in {"parallel", "fallback"} /\ threads[t].pc = "dfs_visit"
  /\ LET r == tryMarkVisitedWithLocal(threads[t].s.hash, threads[t].local_seen,
                                      visited) IN
       /\ visited' = r.shared
       /\ threads' = [threads EXCEPT ![t].local_seen = r.local_seen,
                                     ![t].pc = IF r.ok THEN "dfs_enter" ELSE "dfs_undo"]
  /\ UNCHANGED <<iterations, found, parSolution, nextRoot, levelVars>>
  /\ OmpUnchanged

\* undoMove(m) after a failed or pruned child, then the next move
OmpDfsUndo(t) ==
  /\ t \in DOMAIN threads
  /\ pc \in {"parallel", "fallback"} /\ threads[t].pc = "dfs_undo"
  /\ LET th == threads[t]
         f  == th.stack[Len(th.stack)]
     IN threads' = [threads EXCEPT
          ![t].s = undoMove(puzzle, zobrist, th.s, f.moves[f.i]),
          ![t].stack = [@ EXCEPT ![Len(@)].i = f.i + 1],
          ![t].pc = "dfs_loop"]
  /\ UNCHANGED <<visited, iterations, found, parSolution, nextRoot, levelVars>>
  /\ OmpUnchanged

OmpDfsLoopEnd(t) ==
  /\ t \in DOMAIN threads
  /\ pc \in {"parallel", "fallback"} /\ threads[t].pc = "dfs_loop"
  /\ LET th == threads[t] IN
       /\ th.stack[Len(th.stack)].i > Len(th.stack[Len(th.stack)].moves)
       /\ threads' = [threads EXCEPT
            ![t].stack = SubSeq(@, 1, Len(@) - 1),
            ![t].retval = FALSE,
            ![t].pc = "dfs_return"]
  /\ UNCHANGED <<visited, iterations, found, parSolution, nextRoot, levelVars>>
  /\ OmpUnchanged

\* a dfs() call of thread t has returned to its calling dfs() frame:
\* "if (dfs(...)) { undoMove(m); return true; }", else fall to undoMove
OmpDfsReturn(t) ==
  /\ t \in DOMAIN threads
  /\ pc \in {"parallel", "fallback"} /\ threads[t].pc = "dfs_return"
  /\ threads[t].stack # <<>>
  /\ LET th == threads[t]
         f  == th.stack[Len(th.stack)]
     IN IF th.retval
        THEN threads' = [threads EXCEPT
               ![t].s = undoMove(puzzle, zobrist, th.s, f.moves[f.i]),
               ![t].stack = SubSeq(@, 1, Len(@) - 1)]
        ELSE threads' = [threads EXCEPT ![t].pc = "dfs_undo"]
  /\ UNCHANGED <<visited, iterations, found, parSolution, nextRoot, levelVars>>
  /\ OmpUnchanged

\* worker.dfs() has returned to the omp for body:
\* "if (worker.dfs(...)) found.store(true);", then the next iteration
OmpRootReturn(t) ==
  /\ t \in DOMAIN threads
  /\ pc = "parallel" /\ threads[t].pc = "dfs_return"
  /\ threads[t].stack = <<>>
  /\ found' = (found \/ threads[t].retval)
  /\ threads' = [threads EXCEPT ![t].pc = "grab"]
  /\ UNCHANGED <<visited, iterations, parSolution, nextRoot, levelVars>>
  /\ OmpUnchanged

\* end of the parallel region: solve() returns
OmpJoin ==
  /\ pc = "parallel" /\ driver = "omp_dfs"
  /\ \A t \in DOMAIN threads : threads[t].pc = "finished"
  /\ IF found_load(found)
     THEN /\ cur' = [cur EXCEPT !.grid = parSolution,
                                !.filledCount = puzzle.w * puzzle.h]
          /\ verdict' = "solved"
          /\ solution' = parSolution
     ELSE /\ verdict' = "no_solution"
          /\ UNCHANGED <<cur, solution>>
  /\ pc' = "done"
  /\ UNCHANGED <<genVars, lockVars, driver, gameId, maxThreads, puzzle, zobrist, queue, visited,
                 stack, retval, iterations, seedFailed, stderrMsg, threads,
                 found, parSolution, rootMoves, nextRoot, levelVars>>

\* single-thread fallback: "const bool ok = dfs(...); if (ok) grid_ = solution"
OmpFallbackReturn ==
  /\ pc = "fallback"
  /\ threads[0].pc = "dfs_return" /\ threads[0].stack = <<>>
  /\ IF threads[0].retval
     THEN /\ cur' = [cur EXCEPT !.grid = parSolution,
                                !.filledCount = puzzle.w * puzzle.h]
          /\ verdict' = "solved"
          /\ solution' = parSolution
     ELSE /\ verdict' = "no_solution"
          /\ UNCHANGED <<cur, solution>>
  /\ pc' = "done"
  /\ UNCHANGED <<genVars, lockVars, driver, gameId, maxThreads, puzzle, zobrist, queue, visited,
                 stack, retval, iterations, seedFailed, stderrMsg, threads,
                 found, parSolution, rootMoves, nextRoot, levelVars>>

Next ==
  \/ Parse
  \/ CppBfsSeed \/ CppBfsFull \/ CppBfsExpand \/ CppBfsExhausted
  \/ CBfsSeed \/ CBfsFull \/ CBfsExpand \/ CBfsExhausted
  \/ SeqDfsSeed \/ SeqDfsEnter \/ SeqDfsApply \/ SeqDfsVisit \/ SeqDfsUndo
  \/ SeqDfsLoopEnd \/ SeqDfsReturn
  \/ OmpSeed \/ OmpJoin \/ OmpFallbackReturn
  \/ \E t \in 0 .. MaxThreads - 1 : OmpGrab(t)
  \/ \E t \in 0 .. MaxThreads - 1 : OmpRootVisit(t)
  \/ \E t \in 0 .. MaxThreads - 1 : OmpDfsEnter(t)
  \/ \E t \in 0 .. MaxThreads - 1 : OmpCas(t)
  \/ \E t \in 0 .. MaxThreads - 1 : OmpCommit(t)
  \/ \E t \in 0 .. MaxThreads - 1 : OmpDfsApply(t)
  \/ \E t \in 0 .. MaxThreads - 1 : OmpDfsVisit(t)
  \/ \E t \in 0 .. MaxThreads - 1 : OmpDfsUndo(t)
  \/ \E t \in 0 .. MaxThreads - 1 : OmpDfsLoopEnd(t)
  \/ \E t \in 0 .. MaxThreads - 1 : OmpDfsReturn(t)
  \/ \E t \in 0 .. MaxThreads - 1 : OmpRootReturn(t)

Spec == Init /\ [][Next]_vars


\* ============================================================ properties
\* What a legal partition is (the rules of the puzzle), stated without the
\* solver's helpers.
Mirror(dot, t) ==
  << ((2 * dot.x - (2 * t[1] + 1)) - 1) \div 2,
     ((2 * dot.y - (2 * t[2] + 1)) - 1) \div 2 >>

Touches(dot, t) ==
  /\ 2 * t[1] + 1 - dot.x \in {-1, 0, 1}
  /\ 2 * t[2] + 1 - dot.y \in {-1, 0, 1}

Adjacent(t, u) ==
  \/ (t[1] = u[1] /\ t[2] - u[2] \in {-1, 1})
  \/ (t[2] = u[2] /\ t[1] - u[1] \in {-1, 1})

Region(grid, d) == {t \in DOMAIN grid : grid[t] = d}

RECURSIVE Flood(_, _)
Flood(R, seen) ==
  LET more == {t \in R \ seen : \E u \in seen : Adjacent(t, u)} IN
  IF more = {} THEN seen ELSE Flood(R, seen \cup more)

Connected(R) == R = {} \/ Flood(R, {CHOOSE t \in R : TRUE}) = R

LegalRegion(p, grid, d) ==
  LET R == Region(grid, d) IN
  /\ R # {}
  /\ Connected(R)
  /\ \A t \in DOMAIN grid : Touches(DotAt(p, d), t) => t \in R
  /\ \A t \in R : Mirror(DotAt(p, d), t) \in R

LegalPartition(p, grid) ==
  /\ DOMAIN grid = Tiles(p.w, p.h)
  /\ \A t \in DOMAIN grid : grid[t] \in 0 .. NDots(p) - 1
  /\ \A d \in 0 .. NDots(p) - 1 : LegalRegion(p, grid, d)

Full(grid) == \A t \in DOMAIN grid : grid[t] # -1

EveryDotOwnsATile(p, grid) ==
  \A d \in 0 .. NDots(p) - 1 : \E t \in DOMAIN grid : grid[t] = d

\* C1: whenever a driver reports a solution, the reported grid is a legal
\* partition: every tile has one owner, and every dot's region is connected,
\* contains the tiles touching the dot and is point-symmetric about the dot.
C1_ReportedGridIsLegal ==
  verdict = "solved" => LegalPartition(puzzle, solution)


\* dots that could own tile t in a legal partition: the mirror image stays on
\* the board and no other dot touches t
Cand(p, t) ==
  {d \in 0 .. NDots(p) - 1 :
     /\ Mirror(DotAt(p, d), t) \in Tiles(p.w, p.h)
     /\ \A e \in 0 .. NDots(p) - 1 : Touches(DotAt(p, e), t) => e = d}

HasLegalPartition(p) ==
  /\ \A t \in Tiles(p.w, p.h) : Cand(p, t) # {}
  /\ \E g \in [Tiles(p.w, p.h) -> 0 .. NDots(p) - 1] : LegalPartition(p, g)

\* the atomic move of the solver as the design states it: give an unassigned
\* tile t to dot d, together with its mirror image, when t is next to a tile
\* of d (or touches d) and the image is on the board and free or already d's
RefMoves(p, g) ==
  {[u \in DOMAIN g |->
       IF u = m[1] \/ u = Mirror(DotAt(p, m[2]), m[1]) THEN m[2] ELSE g[u]] :
     m \in {n \in (DOMAIN g) \X (0 .. NDots(p) - 1) :
              /\ g[n[1]] = -1
              /\ \/ \E u \in DOMAIN g : g[u] = n[2] /\ Adjacent(n[1], u)
                 \/ Touches(DotAt(p, n[2]), n[1])
              /\ Mirror(DotAt(p, n[2]), n[1]) \in DOMAIN g
              /\ g[Mirror(DotAt(p, n[2]), n[1])] \in {-1, n[2]}}}

RECURSIVE RefClosure(_, _, _)
RefClosure(p, frontier, seen) ==
  LET new == (UNION {RefMoves(p, g) : g \in frontier}) \ seen IN
  IF new = {} THEN seen ELSE RefClosure(p, new, seen \cup new)

AcceptReachable(p, g0) ==
  \E g \in RefClosure(p, {g0}, {g0}) : Full(g) /\ EveryDotOwnsATile(p, g)

BfsDrivers == {"c_bfs", "cpp_bfs"}

\* C2: the BFS drivers are complete (the Zobrist words being collision
\* free): a puzzle with a legal partition is reported solved, and "No
\* solution" is reported only when no accepted state can be reached from the
\* seeded state by symmetric pair moves.
C2_BfsComplete ==
  (pc = "done" /\ driver \in BfsDrivers) =>
     /\ HasLegalPartition(puzzle) => verdict = "solved"
     /\ (verdict = "no_solution" /\ ~seedFailed)
           => ~AcceptReachable(puzzle, cur.grid)

C2_Witness ==
  /\ pc = "done" /\ driver = "cpp_bfs" /\ verdict = "solved"
  /\ iterations > 1
  /\ HasLegalPartition(puzzle)


AcceptableGrid(p, g) == Full(g) /\ EveryDotOwnsATile(p, g)

\* C3: a driver reports success exactly for an examined state whose grid is
\* full and in which every dot owns a tile; a full grid with a dot that owns
\* nothing is never accepted.
C3_AcceptanceExact ==
  /\ [](verdict = "solved" => AcceptableGrid(puzzle, solution))
  /\ [][ /\ (driver \in BfsDrivers /\ pc = "bfs" /\ queue # <<>>) =>
              /\ (verdict' = "solved") <=> AcceptableGrid(puzzle, Head(queue).grid)
              /\ (verdict' = "solved") => solution' = Head(queue).grid
         /\ (driver = "seq_dfs" /\ pc = "dfs_enter") =>
              ((pc' = "dfs_return" /\ retval') <=> AcceptableGrid(puzzle, cur.grid))
         /\ (driver = "seq_dfs" /\ pc = "dfs_return" /\ retval) =>
              /\ retval' /\ cur' = cur
              /\ (pc' = "done") => (verdict' = "solved" /\ solution' = cur.grid)
         /\ \A t \in DOMAIN threads :
              /\ (threads[t].pc = "dfs_enter" /\ ~found /\ threads'[t] # threads[t]) =>
                   ((threads'[t].pc = "cas")
                      <=> AcceptableGrid(puzzle, threads[t].s.grid))
              /\ (threads[t].pc = "cas" /\ threads'[t] # threads[t]) =>
                   /\ found'
                   /\ \/ threads'[t].pc = "commit"
                      \/ threads'[t].pc = "dfs_return" /\ threads'[t].retval
              /\ (threads[t].pc = "commit" /\ threads'[t] # threads[t]) =>
                   parSolution' = threads[t].s.grid
         /\ (driver = "omp_dfs" /\ pc' = "done" /\ found) =>
              (verdict' = "solved" /\ solution' = parSolution)
     ]_vars

C3_Witness ==
  /\ pc = "done" /\ verdict = "no_solution" /\ ~seedFailed
  /\ iterations >= 1
  /\ Full(cur.grid) /\ ~EveryDotOwnsATile(puzzle, cur.grid)

\* the state each driver's seeding produces for the decoded puzzle
SeededState ==
  IF driver = "c_bfs"
  THEN c_prefill(puzzle, zobrist, EmptyState(puzzle.w, puzzle.h), 0)
  ELSE seedForcedTiles(puzzle, zobrist, EmptyState(puzzle.w, puzzle.h))

\* C4: when seeding alone fills the board and every dot owns a tile, solve()
\* reports the seeded grid as the solution, in every driver and for every
\* number of threads.
C4_SeedFullIsSolved ==
  pc = "done" =>
    ((SeededState.ok /\ AcceptableGrid(puzzle, SeededState.s.grid))
       => (verdict = "solved" /\ solution = SeededState.s.grid))

Id4x2Top == [w |-> 4, h |-> 2, data |-> <<"k", "M", "c", "M", "z", "c">>]

Dots4x2Top == << [x |-> 2, y |-> 1, is_black |-> FALSE],
                 [x |-> 6, y |-> 1, is_black |-> FALSE] >>

LeftRightGrid == [t \in Tiles(4, 2) |-> IF t[1] <= 1 THEN 0 ELSE 1]

\* C5 as stated: for the 4x2 puzzle with white dots at (2,1) and (6,1) the
\* solver reports the left half for dot 0 and the right half for dot 1.
C5_Original ==
  (gameId = Id4x2Top /\ pc = "done") =>
     /\ puzzle.dots = Dots4x2Top
     /\ verdict = "solved"
     /\ solution = LeftRightGrid

\* C5, amended: for the 4x2 puzzle with white dots at (2,1) and (6,1) every
\* driver reports "No solution": the puzzle has no legal partition, the
\* halves not being point-symmetric about these dots.
C5_TopRowDotsUnsolvable ==
  (gameId = Id4x2Top /\ pc = "done") =>
     /\ puzzle.dots = Dots4x2Top
     /\ verdict = "no_solution"
     /\ ~LegalPartition(puzzle, LeftRightGrid)

C5_Witness ==
  /\ gameId = Id4x2Top /\ pc = "done" /\ verdict = "no_solution"
  /\ iterations >= 1

Id2x1bMb == [w |-> 2, h |-> 1, data |-> <<"b", "M", "b">>]

Id2x1gMg == [w |-> 2, h |-> 1, data |-> <<"g", "M", "g">>]

Id1x1Ma == [w |-> 1, h |-> 1, data |-> <<"M", "a">>]

Id1x1dMd == [w |-> 1, h |-> 1, data |-> <<"d", "M", "d">>]

WhiteDot(xx, yy) == [x |-> xx, y |-> yy, is_black |-> FALSE]

\* the multi-threaded parallel DFS gives up on an empty root move list
EmptyRootGivesUp ==
  driver = "omp_dfs" /\ maxThreads > 1 /\ verdict = "no_solution"

SeedForces(p, d, t) ==
  /\ Touches(DotAt(p, d), t)
  /\ driver = "c_bfs" => (DotAt(p, d).x % 2 = 1 /\ DotAt(p, d).y % 2 = 1)

SeedConflict(p) ==
  \E t \in Tiles(p.w, p.h) : \E d, e \in 0 .. NDots(p) - 1 :
     d # e /\ SeedForces(p, d, t) /\ SeedForces(p, e, t)

\* C8: when seeding meets a forced tile that another dot already owns, the
\* solver stops without searching: nothing is expanded, no hash enters the
\* visited set, no solution is reported.
C8_SeedConflictStops ==
  (pc \notin {"parse", "seed"} /\ SeedConflict(puzzle)) =>
     /\ pc = "done" /\ seedFailed
     /\ verdict \in {"no_solution", "error"}
     /\ driver = "cpp_bfs" => stderrMsg
     /\ iterations = 0 /\ visited = {} /\ queue = <<>>
     /\ threads = <<>> /\ ~found

C8_Witness ==
  /\ pc = "done" /\ SeedConflict(puzzle) /\ seedFailed
  /\ \E t \in Tiles(puzzle.w, puzzle.h) : cur.grid[t] # -1

\* some tile touching a dot lies outside the w x h board
ForcedOutside(p) ==
  \E d \in 0 .. NDots(p) - 1 :
     \E tx \in (DotAt(p, d).x \div 2) - 1 .. (DotAt(p, d).x \div 2) :
     \E ty \in (DotAt(p, d).y \div 2) - 1 .. (DotAt(p, d).y \div 2) :
        Touches(DotAt(p, d), <<tx, ty>>) /\ <<tx, ty>> \notin Tiles(p.w, p.h)

\* C9: a puzzle in which a forced tile lies outside the board is rejected as
\* infeasible at seed time, instead of being seeded in part and searched.
C9_OutsideSeedRejected ==
  (pc = "done" /\ ForcedOutside(puzzle)) =>
     (verdict # "solved" /\ iterations = 0 /\ visited = {})

PairSymmetric(p, g) ==
  \A t \in DOMAIN g : g[t] # -1 =>
     LET m == Mirror(DotAt(p, g[t]), t) IN
       m = t \/ (m \in DOMAIN g /\ g[m] = g[t])

\* the solver states of the run: the seeded state, the states in the BFS
\* queue, the DFS state of the solver and of every worker
SolverGrids ==
  (IF pc \in {"parse", "seed"} \/ seedFailed THEN {} ELSE {cur.grid})
    \cup {queue[i].grid : i \in 1 .. Len(queue)}
    \cup {threads[t].s.grid : t \in DOMAIN threads}

\* C10: in every solver state, the mirror image of an assigned tile about
\* its owning dot is the tile itself or a tile of the board owned by the same
\* dot.
C10_PairInvariant == \A g \in SolverGrids : PairSymmetric(puzzle, g)

\* the XOR of Z[tile index][dot index] over the assigned tiles of grid g
GridHash(p, zob, g) ==
  LET T    == {t \in DOMAIN g : g[t] # -1}
      Z(t) == ZWord(p, zob, t[2] * p.w + t[1], g[t])
  IN {b \in UNION {Z(t) : t \in T} :
        Cardinality({t \in T : b \in Z(t)}) % 2 = 1}

\* the solver states of the run, with their counters and hashes: the
\* seeded / in-place state, the queued states and the workers' states.  The
\* parallel DFS ends with "grid_ = std::move(solution)", which is no seeding,
\* move or undo and leaves current_hash_ as it was; that copy is left out.
SolverStates ==
  (IF driver = "omp_dfs" /\ verdict = "solved" THEN {} ELSE {cur})
    \cup {queue[i] : i \in 1 .. Len(queue)}
    \cup {threads[t].s : t \in DOMAIN threads}

\* C11: in every solver state reached by seeding, applying and undoing
\* moves, the stored hash is the XOR of Z[tile][dot] over exactly the assigned
\* tiles, so two states with the same grid have the same hash.
C11_HashIsXor ==
  /\ \A s \in SolverStates : s.hash = GridHash(puzzle, zobrist, s.grid)
  /\ \A s1, s2 \in SolverStates : s1.grid = s2.grid => s1.hash = s2.hash

C11_Witness ==
  /\ driver = "seq_dfs" /\ pc = "done" /\ verdict = "no_solution"
  /\ Cardinality(visited) >= 2
  /\ cur.hash # {} /\ cur.hash = GridHash(puzzle, zobrist, cur.grid)

\* ============================================================ generator
\* src/generator/simple_generator.c: generate_new_game and main.  A cell of
\* the internal grid is <<x, y>>; state.grid maps it to the fields of its
\* struct space; flags is the set of the flag bits that are set.
F_DOT == 1
F_EDGE_SET == 2
F_TILE_ASSOC == 4
F_DOT_BLACK == 8

MAX_TOADD == 20
MAX_OUTSIDE == 100

\* the null pointer returned by space_opposite_dot
NULL == <<-1, -1>>

\* sp->type as blank_game sets it
SpaceType(x, y) ==
  IF x % 2 = 1 /\ y % 2 = 1 THEN "s_tile"
  ELSE IF x % 2 = 0 /\ y % 2 = 0 THEN "s_vertex"
  ELSE "s_edge"

IS_VERTICAL_EDGE(x) == x % 2 = 0

INGRID(s, x, y) == x >= 0 /\ y >= 0 /\ x < s.sx /\ y < s.sy

\* the cells of state->grid
Spaces(s) == (0 .. s.sx - 1) \X (0 .. s.sy - 1)

\* grid index of a cell: SPACE(s, x, y) is grid[y * sx + x]
SpaceIndex(s, c) == c[2] * s.sx + c[1]

\* the cell at grid index i
SpaceAt(s, i) == <<i % s.sx, i \div s.sx>>

blank_game(w, h) ==
  LET sx == 2 * w + 1
      sy == 2 * h + 1
  IN [w |-> w, h |-> h, sx |-> sx, sy |-> sy,
      grid |-> [c \in (0 .. sx - 1) \X (0 .. sy - 1) |->
                  [flags  |-> IF \/ c[2] = 0 \/ c[2] = sy - 1
                                 \/ c[1] = 0 \/ c[1] = sx - 1
                              THEN {F_EDGE_SET} ELSE {},
                   dotx   |-> 0,
                   doty   |-> 0,
                   nassoc |-> 0]],
      ndots |-> 0,
      dots  |-> <<>>]

\* variant: every cell cleared to flags = 0, the frame included
clear_game_noFrame(s) ==
  [s EXCEPT !.grid = [c \in Spaces(s) |->
                        [flags |-> {}, dotx |-> -1, doty |-> -1, nassoc |-> 0]],
            !.ndots = 0,
            !.dots = <<>>]

clear_game(s) ==
  [s EXCEPT !.grid = [c \in Spaces(s) |->
                        [flags  |-> IF \/ c[1] = 0 \/ c[2] = 0
                                       \/ c[1] = s.sx - 1 \/ c[2] = s.sy - 1
                                    THEN {F_EDGE_SET} ELSE {},
                         dotx   |-> -1,
                         doty   |-> -1,
                         nassoc |-> 0]],
            !.ndots = 0,
            !.dots = <<>>]

\* the cells carrying F_DOT, in grid order
DotCells(s) == {c \in Spaces(s) : F_DOT \in s.grid[c].flags}

game_update_dots(s) ==
  LET idx == {SpaceIndex(s, c) : c \in DotCells(s)}
      all == [i \in 1 .. s.sx * s.sy |-> i - 1]
  IN [s EXCEPT !.ndots = Cardinality(idx),
               !.dots = LET hit(i) == i \in idx
                            sel == SelectSeq(all, hit)
                        IN [k \in 1 .. Len(sel) |-> SpaceAt(s, sel[k])]]

\* variant: associated tiles in the rectangle are always allowed
dot_is_possible_allowsAssoc(s, sp, allow_assoc) ==
  LET t  == SpaceType(sp[1], sp[2])
      bx == IF t = "s_tile" THEN 1
            ELSE IF t = "s_edge"
                 THEN (IF IS_VERTICAL_EDGE(sp[1]) THEN 2 ELSE 1)
                 ELSE 2
      by == IF t = "s_tile" THEN 1
            ELSE IF t = "s_edge"
                 THEN (IF IS_VERTICAL_EDGE(sp[1]) THEN 1 ELSE 2)
                 ELSE 2
  IN \A dx \in -bx .. bx, dy \in -by .. by :
       INGRID(s, sp[1] + dx, sp[2] + dy) =>
         LET adj == s.grid[<<sp[1] + dx, sp[2] + dy>>] IN
         /\ ((dx # 0 \/ dy # 0) => F_DOT \notin adj.flags)
         /\ ~(Abs(dx) < bx /\ Abs(dy) < by /\ F_EDGE_SET \in adj.flags)

dot_is_possible(s, sp, allow_assoc) ==
  LET t  == SpaceType(sp[1], sp[2])
      bx == IF t = "s_tile" THEN 1
            ELSE IF t = "s_edge"
                 THEN (IF IS_VERTICAL_EDGE(sp[1]) THEN 2 ELSE 1)
                 ELSE 2
      by == IF t = "s_tile" THEN 1
            ELSE IF t = "s_edge"
                 THEN (IF IS_VERTICAL_EDGE(sp[1]) THEN 1 ELSE 2)
                 ELSE 2
  IN \A dx \in -bx .. bx, dy \in -by .. by :
       INGRID(s, sp[1] + dx, sp[2] + dy) =>
         LET adj == s.grid[<<sp[1] + dx, sp[2] + dy>>] IN
         /\ ~(~allow_assoc /\ F_TILE_ASSOC \in adj.flags)
         /\ ((dx # 0 \/ dy # 0) => F_DOT \notin adj.flags)
         /\ ~(Abs(dx) < bx /\ Abs(dy) < by /\ F_EDGE_SET \in adj.flags)

add_dot(s, sp) ==
  [s EXCEPT !.grid[sp].flags = @ \cup {F_DOT}, !.grid[sp].nassoc = 0]

\* variant: the image taken about the dot's column only
space_opposite_dot_xOnly(s, sp, dot) ==
  LET x == dot[1] + (dot[1] - sp[1])
      y == sp[2]
  IN IF ~INGRID(s, x, y) THEN NULL ELSE <<x, y>>

space_opposite_dot(s, sp, dot) ==
  LET x == dot[1] + (dot[1] - sp[1])
      y == dot[2] + (dot[2] - sp[2])
  IN IF ~INGRID(s, x, y) THEN NULL ELSE <<x, y>>

\* variant: the dot's counter goes up by two
Associate_countsTwice(s, tile, dot) ==
  LET g1 == [s.grid EXCEPT ![tile] = [@ EXCEPT !.flags = @ \cup {F_TILE_ASSOC},
                                               !.dotx = dot[1],
                                               !.doty = dot[2]]]
  IN [s EXCEPT !.grid = [g1 EXCEPT ![dot].nassoc = @ + 2]]

\* "tile->flags |= F_TILE_ASSOC; tile->dotx = dot->x; tile->doty = dot->y;
\*  dot->nassoc++;"
Associate(s, tile, dot) ==
  LET g1 == [s.grid EXCEPT ![tile] = [@ EXCEPT !.flags = @ \cup {F_TILE_ASSOC},
                                               !.dotx = dot[1],
                                               !.doty = dot[2]]]
  IN [s EXCEPT !.grid = [g1 EXCEPT ![dot].nassoc = @ + 1]]

\* "tile_opp->flags & F_TILE_ASSOC && (tile_opp->dotx != dot->x || ...)"
OwnedByOther(s, sp, dot) ==
  /\ F_TILE_ASSOC \in s.grid[sp].flags
  /\ (s.grid[sp].dotx # dot[1] \/ s.grid[sp].doty # dot[2])

\* the tiles in the order of solver_obvious_dot's loops: x outside, y inside
TileScan(s) ==
  [k \in 1 .. s.w * s.h |->
     <<2 * ((k - 1) \div s.h) + 1, 2 * ((k - 1) % s.h) + 1>>]

\* variant: without "if (tile->flags & F_TILE_ASSOC) continue;"
RECURSIVE obvious_scan_retakesTiles(_, _, _, _)
obvious_scan_retakesTiles(s, dot, ts, k) ==
  IF k > Len(ts) THEN s
  ELSE LET tile == ts[k]
           opp  == space_opposite_dot(s, tile, dot)
       IN IF opp = NULL
          THEN obvious_scan_retakesTiles(s, dot, ts, k + 1)
          ELSE IF OwnedByOther(s, opp, dot)
          THEN obvious_scan_retakesTiles(s, dot, ts, k + 1)
          ELSE LET s1 == Associate(s, tile, dot)
                   s2 == IF F_TILE_ASSOC \in s1.grid[opp].flags
                         THEN s1 ELSE Associate(s1, opp, dot)
               IN obvious_scan_retakesTiles(s2, dot, ts, k + 1)

RECURSIVE obvious_scan(_, _, _, _)
obvious_scan(s, dot, ts, k) ==
  IF k > Len(ts) THEN s
  ELSE LET tile == ts[k]
           opp  == space_opposite_dot(s, tile, dot)
       IN IF F_TILE_ASSOC \in s.grid[tile].flags
          THEN obvious_scan(s, dot, ts, k + 1)
          ELSE IF opp = NULL
          THEN obvious_scan(s, dot, ts, k + 1)
          ELSE IF OwnedByOther(s, opp, dot)
          THEN obvious_scan(s, dot, ts, k + 1)
          ELSE LET s1 == Associate(s, tile, dot)
                   s2 == IF F_TILE_ASSOC \in s1.grid[opp].flags
                         THEN s1 ELSE Associate(s1, opp, dot)
               IN obvious_scan(s2, dot, ts, k + 1)

\* variant: the scan stops after the first tile
solver_obvious_dot_firstTileOnly(s, dot) ==
  obvious_scan(s, dot, SubSeq(TileScan(s), 1, 1), 1)

\* the board after solver_obvious_dot(state, dot)
solver_obvious_dot(s, dot) == obvious_scan(s, dot, TileScan(s), 1)

\* outline_tile_fordot(state, tile, TRUE): the four edges around the tile
RECURSIVE outline_scan(_, _, _)
outline_scan(s, tile, i) ==
  IF i > 4 THEN s
  ELSE LET dxs == <<-1, 1, 0, 0>>
           dys == <<0, 0, -1, 1>>
           ex  == tile[1] + dxs[i]
           ey  == tile[2] + dys[i]
           tx  == ex + dxs[i]
           ty  == ey + dys[i]
       IN IF ~INGRID(s, ex, ey) THEN outline_scan(s, tile, i + 1)
          ELSE LET has_edge == F_EDGE_SET \in s.grid[<<ex, ey>>].flags
                   tf   == s.grid[tile]
                   same == IF ~INGRID(s, tx, ty) THEN FALSE
                           ELSE LET tadj == s.grid[<<tx, ty>>] IN
                                IF F_TILE_ASSOC \notin tf.flags
                                THEN F_TILE_ASSOC \notin tadj.flags
                                ELSE /\ F_TILE_ASSOC \in tadj.flags
                                     /\ tf.dotx = tadj.dotx
                                     /\ tf.doty = tadj.doty
               IN IF ~has_edge /\ ~same
                  THEN outline_scan(
                         [s EXCEPT !.grid[<<ex, ey>>].flags = @ \cup {F_EDGE_SET}],
                         tile, i + 1)
                  ELSE IF has_edge /\ same
                  THEN outline_scan(
                         [s EXCEPT !.grid[<<ex, ey>>].flags = @ \ {F_EDGE_SET}],
                         tile, i + 1)
                  ELSE outline_scan(s, tile, i + 1)

\* variant: only the edges above and below the tile are visited
outline_tile_fordot_upDownOnly(s, tile) == outline_scan(s, tile, 3)

outline_tile_fordot(s, tile) == outline_scan(s, tile, 1)

\* the first loop of dot_expand_or_move: every block tile has its image about
\* the dot on the board, free or the dot's own
expand_allowed(s, dot, toadd) ==
  \A i \in 1 .. Len(toadd) :
    LET tile_opp == space_opposite_dot(s, toadd[i], dot) IN
    /\ tile_opp # NULL
    /\ ~OwnedByOther(s, tile_opp, dot)

RECURSIVE expand_scan(_, _, _, _)
\* variant: the second loop counts the block tile only, not its image
expand_scan_countsBlockOnly(s, dot, toadd, i) ==
  IF i > Len(toadd) THEN s
  ELSE LET tile     == toadd[i]
           tile_opp == space_opposite_dot(s, tile, dot)
           s1       == Associate(s, tile, dot)
           s2       == IF F_TILE_ASSOC \notin s1.grid[tile_opp].flags
                       THEN [Associate(s1, tile_opp, dot)
                               EXCEPT !.grid[dot].nassoc = @ - 1]
                       ELSE s1
       IN expand_scan(s2, dot, toadd, i + 1)

\* the second loop of dot_expand_or_move
expand_scan(s, dot, toadd, i) ==
  IF i > Len(toadd) THEN s
  ELSE LET tile     == toadd[i]
           tile_opp == space_opposite_dot(s, tile, dot)
           s1       == Associate(s, tile, dot)
           s2       == IF F_TILE_ASSOC \notin s1.grid[tile_opp].flags
                       THEN Associate(s1, tile_opp, dot) ELSE s1
       IN expand_scan(s2, dot, toadd, i + 1)

\* variant: the first block tile is associated before the images are tested
dot_expand_or_move_checksLate(s, dot, toadd) ==
  IF ~expand_allowed(s, dot, toadd)
  THEN [ret |-> 0, state |-> Associate(s, toadd[1], dot)]
  ELSE [ret |-> 1,
        state |-> solver_obvious_dot(expand_scan(s, dot, toadd, 1), dot)]

\* dot_expand_or_move: [ret, state]
dot_expand_or_move(s, dot, toadd) ==
  IF ~expand_allowed(s, dot, toadd)
  THEN [ret |-> 0, state |-> s]
  ELSE [ret |-> 1,
        state |-> solver_obvious_dot(expand_scan(s, dot, toadd, 1), dot)]

\* the block of tiles in generate_try_block's order: y outside, x inside
BlockTiles(x1, y1, x2, y2) ==
  LET nx == (x2 - x1) \div 2 + 1
      ny == (y2 - y1) \div 2 + 1
  IN [k \in 1 .. nx * ny |->
        <<x1 + 2 * ((k - 1) % nx), y1 + 2 * ((k - 1) \div nx)>>]

\* the tiles collected in outside[]: one step beyond each side of the block
OutsideTiles(s, x1, y1, x2, y2) ==
  {<<x, y1 - 2>> : x \in {v \in x1 .. x2 : (v - x1) % 2 = 0 /\ y1 >= 2}}
    \cup {<<x, y2 + 2>> :
            x \in {v \in x1 .. x2 : (v - x1) % 2 = 0 /\ y2 <= s.sy - 3}}
    \cup {<<x1 - 2, y>> : y \in {v \in y1 .. y2 : (v - y1) % 2 = 0 /\ x1 >= 2}}
    \cup {<<x2 + 2, y>> :
            y \in {v \in y1 .. y2 : (v - y1) % 2 = 0 /\ x2 <= s.sx - 3}}

\* the rectangle generate_pass hands to generate_try_block for cell sp
BlockOf(sp) ==
  IF SpaceType(sp[1], sp[2]) = "s_edge"
  THEN IF IS_VERTICAL_EDGE(sp[1])
       THEN <<sp[1] - 1, sp[2], sp[1] + 1, sp[2]>>
       ELSE <<sp[1], sp[2] - 1, sp[1], sp[2] + 1>>
  ELSE <<sp[1], sp[2], sp[1], sp[2]>>

\* generate_try_block gets past its first line and evaluates
\* (state->w * state->h) / state->ndots
ReachesDivision(s, sp) ==
  LET b == BlockOf(sp) IN
  /\ SpaceType(sp[1], sp[2]) # "s_vertex"
  /\ ~(b[1] < 0 \/ b[2] < 0 \/ b[3] >= s.sx \/ b[4] >= s.sy)

\* "maxsz = (w * h) / ndots; if (maxsz < 4) maxsz = 4;".  A zero divisor is
\* undefined: the instruction traps (divByZero = "trap", the run ends there)
\* or leaves a quotient without trapping (divByZero = "zero": the quotient
\* is 0, and so is maxsz = 4 for every quotient below 4).
MaxSz(s, how) ==
  LET q == IF s.ndots # 0 THEN CDiv(s.w * s.h, s.ndots) ELSE 0
  IN IF q < 4 THEN 4 ELSE q

\* the boards generate_try_block can leave when it returns 1 (one per
\* outside tile that the shuffle may bring first among those that succeed);
\* it returns 0, changing nothing, when the set is empty
generate_try_block(s, how, x1, y1, x2, y2) ==
  IF x1 < 0 \/ y1 < 0 \/ x2 >= s.sx \/ y2 >= s.sy THEN {}
  ELSE LET maxsz == MaxSz(s, how)
           toadd == BlockTiles(x1, y1, x2, y2)
       IN IF \E i \in 1 .. Len(toadd) : F_TILE_ASSOC \in s.grid[toadd[i]].flags
          THEN {}
          ELSE IF Len(toadd) > MAX_TOADD THEN {}
          ELSE {dot_expand_or_move(s, <<s.grid[o].dotx, s.grid[o].doty>>,
                                   toadd).state :
                  o \in {u \in OutsideTiles(s, x1, y1, x2, y2) :
                           /\ F_TILE_ASSOC \in s.grid[u].flags
                           /\ LET dot == <<s.grid[u].dotx, s.grid[u].doty>> IN
                              /\ s.grid[dot].nassoc < maxsz
                              /\ dot_expand_or_move(s, dot, toadd).ret = 1}}

\* the boards cell sp's turn in generate_pass can leave with the loop index
\* at i (flags = GP_DOTS)
PassTurn(s, how, sp, i) ==
  LET b      == BlockOf(sp)
      t      == SpaceType(sp[1], sp[2])
      grown  == IF t # "s_vertex"
                THEN generate_try_block(s, how, b[1], b[2], b[3], b[4])
                ELSE {}
  IN IF grown # {} THEN grown
     ELSE IF t = "s_edge" /\ i % 2 = 1 THEN {s}
     ELSE IF dot_is_possible(s, sp, FALSE)
          THEN {solver_obvious_dot(add_dot(s, sp), sp)}
          ELSE {s}

\* a cell whose turn changes nothing now and at any later time of the pass:
\* flags are only ever added during the pass, so a block that holds an
\* associated tile and a rectangle that rules a dot out stay that way
Settled(s, sp) ==
  LET b == BlockOf(sp) IN
  /\ \/ ~ReachesDivision(s, sp)
     \/ \E i \in 1 .. Len(BlockTiles(b[1], b[2], b[3], b[4])) :
          F_TILE_ASSOC \in s.grid[BlockTiles(b[1], b[2], b[3], b[4])[i]].flags
  /\ ~dot_is_possible(s, sp, FALSE)

\* a settled cell whose turn does not even reach the division
Quiet(s, how, sp) ==
  /\ Settled(s, sp)
  /\ (how = "trap" => ~ReachesDivision(s, sp))

\* the cells the shuffled scratch array can hold at index loopI.  The array
\* is a permutation of all cells; its leading entries are plan, the rest is
\* in any order.  Of the entries already passed, the cells that are not quiet
\* are kept in live and the quiet ones are only counted (their turn changed
\* nothing and quiet cells stay quiet).
Pending(sp) ==
  IF loopI < Len(plan) THEN sp = plan[loopI + 1]
  ELSE /\ sp \in Spaces(state) \ live
       /\ \A k \in 1 .. Len(plan) : plan[k] # sp

\* the bookkeeping of the passed entries after cell sp's turn left board s
Passed(s, sp) ==
  LET lv == {c \in live \cup {sp} : ~Quiet(s, divByZero, c)} IN
  /\ live' = lv
  /\ loopI' = loopI + 1
  /\ quiet' = loopI + 1 - Cardinality(lv)

\* board sizes (w, h) the generator is run on, each with the leading entries
\* of the shuffled scratch array that the scenario fixes
GenRuns ==
  {[w |-> ww, h |-> hh, plan |-> <<>>] : ww \in 1 .. MaxW, hh \in 1 .. MaxH}
    \cup {[w |-> 2, h |-> 2, plan |-> <<>>],
          [w |-> 3, h |-> 1, plan |-> <<>>],
          [w |-> 3, h |-> 3,
           plan |-> << <<1, 2>>, <<2, 3>>, <<4, 5>>, <<3, 3>> >>]}

\* no solver program runs
SolverIdle ==
  /\ driver = "none"
  /\ gameId = [w |-> 0, h |-> 0, data |-> <<>>]
  /\ maxThreads = 1
  /\ pc = "idle"
  /\ puzzle = NoPuzzle
  /\ zobrist = initZobrist(0, 0)
  /\ cur = EmptyState(0, 0)
  /\ queue = <<>>
  /\ visited = {}
  /\ stack = <<>>
  /\ retval = FALSE
  /\ iterations = 0
  /\ seedFailed = FALSE
  /\ stderrMsg = FALSE
  /\ verdict = "pending"
  /\ solution = EmptyGrid(0, 0)
  /\ threads = <<>>
  /\ found = FALSE
  /\ parSolution = EmptyGrid(0, 0)
  /\ rootMoves = <<>>
  /\ nextRoot = 1
  /\ commits = 0
  /\ level = <<>>
  /\ levelI = 0
  /\ NoCalls

\* generate_new_game has called blank_game; the solver programs do not run
GenInit ==
  /\ SolverIdle
  /\ gpc = "blank"
  /\ \E r \in GenRuns : state = blank_game(r.w, r.h) /\ plan = r.plan
  /\ live = {}
  /\ quiet = 0
  /\ loopI = 0
  /\ divByZero \in {"trap", "zero"}
  /\ desc = <<>>
  /\ fnDot = NoSpace
  /\ fnToadd = <<>>
  /\ fnRet = -1
  /\ NoRun

solverVars ==
  <<driver, gameId, maxThreads, pc, puzzle, zobrist, cur, queue, visited,
    stack, retval, iterations, seedFailed, stderrMsg, verdict, solution,
    threads, found, parSolution, rootMoves, nextRoot, levelVars, lockVars>>

\* generate_new_game: clear_game(state)
ClearGame ==
  /\ gpc = "blank"
  /\ state' = clear_game(state)
  /\ gpc' = "pass"
  /\ UNCHANGED <<solverVars, fnVars, runVars, live, quiet, plan, loopI, divByZero, desc>>

\* generate_pass: the turn of a quiet cell
PassQuiet ==
  /\ gpc = "pass"
  /\ loopI < state.sx * state.sy
  /\ IF loopI < Len(plan)
     THEN Quiet(state, divByZero, plan[loopI + 1])
     ELSE Cardinality({c \in Spaces(state) : Quiet(state, divByZero, c)}) > quiet
  /\ loopI' = loopI + 1
  /\ quiet' = quiet + 1
  /\ UNCHANGED <<solverVars, fnVars, runVars, gpc, state, live, plan, divByZero, desc>>

\* generate_pass: generate_try_block divides by state->ndots = 0 and the
\* process is killed (SIGFPE)
PassTrap ==
  /\ gpc = "pass"
  /\ loopI < state.sx * state.sy
  /\ divByZero = "trap"
  /\ state.ndots = 0
  /\ \E sp \in Spaces(state) : Pending(sp) /\ ReachesDivision(state, sp)
  /\ gpc' = "crashed"
  /\ UNCHANGED <<solverVars, fnVars, runVars, state, live, quiet, plan, loopI, divByZero, desc>>

\* generate_pass: the turn of a cell that is not quiet: generate_try_block,
\* then "add_dot(sp); solver_obvious_dot(state, sp);" where a dot is possible
PassCell ==
  /\ gpc = "pass"
  /\ loopI < state.sx * state.sy
  /\ \E sp \in Spaces(state) :
       /\ Pending(sp)
       /\ ~Quiet(state, divByZero, sp)
       /\ ~(divByZero = "trap" /\ ReachesDivision(state, sp))
       /\ state' \in PassTurn(state, divByZero, sp, loopI)
       /\ Passed(state', sp)
  /\ UNCHANGED <<solverVars, fnVars, runVars, gpc, plan, divByZero, desc>>

\* generate_new_game: the pass is over, game_update_dots(state)
GameUpdateDots ==
  /\ gpc = "pass"
  /\ loopI = state.sx * state.sy
  /\ state' = game_update_dots(state)
  /\ gpc' = "outline"
  /\ loopI' = 0
  /\ live' = {}
  /\ quiet' = 0
  /\ UNCHANGED <<solverVars, fnVars, runVars, plan, divByZero, desc>>

\* generate_new_game: "if (state->grid[i].type == s_tile)
\*   outline_tile_fordot(state, &state->grid[i], TRUE);"
OutlineTile ==
  /\ gpc = "outline"
  /\ loopI < state.sx * state.sy
  /\ LET sp == SpaceAt(state, loopI) IN
     /\ SpaceType(sp[1], sp[2]) = "s_tile"
     /\ state' = outline_tile_fordot(state, sp)
  /\ loopI' = loopI + 1
  /\ UNCHANGED <<solverVars, fnVars, runVars, gpc, live, quiet, plan, divByZero, desc>>

\* the outline loop steps over a cell that is no tile
OutlineSkip ==
  /\ gpc = "outline"
  /\ loopI < state.sx * state.sy
  /\ LET sp == SpaceAt(state, loopI) IN SpaceType(sp[1], sp[2]) # "s_tile"
  /\ loopI' = loopI + 1
  /\ UNCHANGED <<solverVars, fnVars, runVars, gpc, state, live, quiet, plan, divByZero, desc>>

\* main: generate_new_game has returned, "desc = encode_game(state)" and the
\* Game ID is printed
EncodeGame ==
  /\ gpc = "outline"
  /\ loopI = state.sx * state.sy
  /\ desc' = encode_game(state.sx, state.sy,
                         {SpaceIndex(state, c) : c \in DotCells(state)},
                         {SpaceIndex(state, c) :
                            c \in {d \in DotCells(state) :
                                     F_DOT_BLACK \in state.grid[d].flags}})
  /\ gpc' = "done"
  /\ UNCHANGED <<solverVars, fnVars, runVars, state, live, quiet, plan, loopI, divByZero>>

GenNext ==
  \/ ClearGame
  \/ PassQuiet \/ PassTrap \/ PassCell
  \/ GameUpdateDots
  \/ OutlineTile \/ OutlineSkip
  \/ EncodeGame

GenSpec == GenInit /\ [][GenNext]_vars

\* ------------------------------------------------ generator properties
\* the Game ID main prints: "WxH:" and the encoded description
GeneratedId == [w |-> state.w, h |-> state.h, data |-> desc]

\* the dots of the board in the order of state->dots, as the decoders
\* record a dot
BoardDots ==
  [k \in 1 .. state.ndots |->
     [x |-> state.dots[k][1], y |-> state.dots[k][2],
      is_black |-> F_DOT_BLACK \in state.grid[state.dots[k]].flags]]

\* C12: for every board the generator produces, decoding the description
\* written by encode_game gives back the board's dots, in row-major order, each
\* at the same internal (x, y) and with the same colour.
C12_EncodeThenDecode ==
  gpc = "done" =>
    /\ fromGameId(GeneratedId).dots = BoardDots
    /\ parse_game_id(GeneratedId).dots = BoardDots
    /\ Len(BoardDots) = Cardinality(DotCells(state))

C12_Witness ==
  /\ gpc = "done"
  /\ state.ndots >= 3
  /\ \E i \in 1 .. Len(desc) - 1 : IsLetter(desc[i]) /\ desc[i + 1] = "M"
  /\ fromGameId(GeneratedId).dots = BoardDots

\* the decoded dot set written out again by encode_game's run-length rule
Reencode(p) ==
  encode_game(p.sx, p.sy,
              {p.dots[k].y * p.sx + p.dots[k].x : k \in 1 .. Len(p.dots)},
              {p.dots[k].y * p.sx + p.dots[k].x :
                 k \in {j \in 1 .. Len(p.dots) : p.dots[j].is_black}})

\* the number of cells a data string covers
RECURSIVE IdCells(_, _)
IdCells(data, i) ==
  IF i > Len(data) THEN 0
  ELSE (IF IsLetter(data[i]) THEN LetterVal(data[i]) ELSE 1)
         + IdCells(data, i + 1)

\* data in the form encode_game writes: it covers exactly the cells of the
\* internal grid, and a run letter is followed by another run letter only
\* when it is a 'z' (a run over 26 continued)
Canonical(gid) ==
  /\ IdCells(gid.data, 1) = (2 * gid.w + 1) * (2 * gid.h + 1)
  /\ \A i \in 1 .. Len(gid.data) - 1 :
       IsLetter(gid.data[i]) /\ IsLetter(gid.data[i + 1]) => gid.data[i] = "z"

\* C13 as stated: decoding any Game ID over the alphabet M, B, a..z and
\* re-encoding the dots reproduces the data string character for character.
C13_Original ==
  pc # "parse" => Reencode(puzzle) = gameId.data

\* C13: decoding a Game ID whose data is in the form encode_game writes (it
\* covers exactly the (2W+1)(2H+1) cells and splits runs only after 'z') and
\* re-encoding the dots reproduces the data string character for character.
C13_CanonicalRoundTrip ==
  pc # "parse" /\ Canonical(gameId) => Reencode(puzzle) = gameId.data

C13_Witness ==
  /\ pc # "parse"
  /\ Canonical(gameId)
  /\ NDots(puzzle) = 2
  /\ \E i \in 1 .. Len(gameId.data) - 1 :
       gameId.data[i] = "z" /\ IsLetter(gameId.data[i + 1])
  /\ Reencode(puzzle) = gameId.data

\* the puzzle the finished board poses: its size and its dots
GeneratedPuzzle ==
  [w |-> state.w, h |-> state.h, sx |-> state.sx, sy |-> state.sy,
   dots |-> BoardDots]

\* the grids that give every tile of ts to one of the dots that could own it
RECURSIVE CandGrids(_, _)
CandGrids(p, ts) ==
  IF ts = {} THEN {<<>>}
  ELSE LET t    == CHOOSE u \in ts : TRUE
           rest == CandGrids(p, ts \ {t})
       IN {(t :> d) @@ g : d \in Cand(p, t), g \in rest}

\* p has a legal partition (in one, every tile's owner is among Cand)
Solvable(p) ==
  \E g \in CandGrids(p, Tiles(p.w, p.h)) : LegalPartition(p, g)

\* C14: every board generate_new_game returns is solvable: its dots admit
\* a legal partition (every tile owned by one dot; each region connected,
\* containing its dot and point-symmetric about it).
C14_GeneratedBoardSolvable ==
  gpc = "done" => Solvable(GeneratedPuzzle)

\* the tile cells of the board
TileCells(s) == {c \in Spaces(s) : SpaceType(c[1], c[2]) = "s_tile"}

\* the cell recorded as the owner of a tile
OwnerOf(s, c) == <<s.grid[c].dotx, s.grid[c].doty>>

\* the tiles recorded as associated to the dot at cell d
TilesOf(s, d) ==
  {c \in TileCells(s) : F_TILE_ASSOC \in s.grid[c].flags /\ OwnerOf(s, c) = d}

\* the generator is at work on the board (after clear_game)
Generating == gpc \in {"pass", "crashed", "outline", "done"}

\* C15: after every generator step each tile is either unassociated or
\* associated to one dot D, a cell that carries the dot flag, and the tile's
\* image under the point reflection about D is on the board and associated
\* to D as well.
C15_GeneratorPairInvariant ==
  Generating =>
    \A c \in TileCells(state) :
      F_TILE_ASSOC \in state.grid[c].flags =>
        LET d == OwnerOf(state, c)
            m == <<2 * d[1] - c[1], 2 * d[2] - c[2]>>
        IN /\ d \in Spaces(state)
           /\ F_DOT \in state.grid[d].flags
           /\ m \in TileCells(state)
           /\ F_TILE_ASSOC \in state.grid[m].flags
           /\ OwnerOf(state, m) = d

C15_Witness ==
  /\ gpc = "pass"
  /\ \E d \in DotCells(state) :
       /\ SpaceType(d[1], d[2]) = "s_tile"
       /\ Cardinality(TilesOf(state, d)) = 3
  /\ \E c \in TileCells(state) : F_TILE_ASSOC \notin state.grid[c].flags

\* C16: after every generator step, the nassoc of every dot is the number
\* of tiles that carry the tile-associated flag and record that dot as owner.
C16_NassocCountsTiles ==
  Generating =>
    \A d \in DotCells(state) :
      state.grid[d].nassoc = Cardinality(TilesOf(state, d))

C16_Witness ==
  /\ gpc = "pass"
  /\ Cardinality(DotCells(state)) >= 2
  /\ \E d \in DotCells(state) : state.grid[d].nassoc = 3
  /\ \E d \in DotCells(state) : state.grid[d].nassoc = 2

\* ------------------------------------- dot_expand_or_move on its own
\* the tiles that touch cell d
TouchingTiles(s, d) ==
  {c \in TileCells(s) : Abs(c[1] - d[1]) <= 1 /\ Abs(c[2] - d[2]) <= 1}

\* board s with a dot placed on cell d that owns the tiles touching it
WithDot(s, d) ==
  LET T == TouchingTiles(s, d) IN
  [s EXCEPT !.grid =
     [c \in Spaces(s) |->
        [flags  |-> (s.grid[c].flags \cup (IF c = d THEN {F_DOT} ELSE {}))
                      \cup (IF c \in T THEN {F_TILE_ASSOC} ELSE {}),
         dotx   |-> IF c \in T THEN d[1] ELSE s.grid[c].dotx,
         doty   |-> IF c \in T THEN d[2] ELSE s.grid[c].doty,
         nassoc |-> IF c = d THEN Cardinality(T) ELSE s.grid[c].nassoc]]]

\* the cells inside the frame
Interior(s) ==
  {c \in Spaces(s) : c[1] > 0 /\ c[2] > 0 /\ c[1] < s.sx - 1 /\ c[2] < s.sy - 1}

\* boards with one dot, or with two dots that touch different tiles
ExpandBoards(w, h) ==
  LET s0 == clear_game(blank_game(w, h)) IN
  {WithDot(s0, d) : d \in Interior(s0)}
    \cup {WithDot(WithDot(s0, d[1]), d[2]) :
            d \in {e \in Interior(s0) \X Interior(s0) :
                     /\ e[1] # e[2]
                     /\ TouchingTiles(s0, e[1]) \cap TouchingTiles(s0, e[2]) = {}}}

ExpandSizes ==
  ((1 .. MaxW) \X (1 .. MaxH)) \cup {<<3, 1>>, <<4, 1>>, <<2, 2>>, <<3, 3>>}

\* the calls generate_try_block makes on board s: the block of a cell, all
\* of its tiles unassociated, offered to the owner of an associated tile next
\* to the block while that dot is below the size limit
ExpandCalls(s, how) ==
  UNION {
    {[dot |-> OwnerOf(s, o), toadd |-> BlockTiles(b[1], b[2], b[3], b[4])] :
       o \in {u \in OutsideTiles(s, b[1], b[2], b[3], b[4]) :
                /\ F_TILE_ASSOC \in s.grid[u].flags
                /\ s.grid[OwnerOf(s, u)].nassoc < MaxSz(s, how)}} :
    b \in {BlockOf(sp) :
             sp \in {c \in Spaces(s) :
                       /\ ReachesDivision(s, c)
                       /\ LET r == BlockOf(c) IN
                          \A i \in 1 .. Len(BlockTiles(r[1], r[2], r[3], r[4])) :
                            F_TILE_ASSOC \notin
                              s.grid[BlockTiles(r[1], r[2], r[3], r[4])[i]].flags}}}

ExpandInit ==
  /\ SolverIdle
  /\ gpc = "call"
  /\ divByZero = "zero"
  /\ \E sz \in ExpandSizes : state \in ExpandBoards(sz[1], sz[2])
  /\ \E c \in ExpandCalls(state, divByZero) :
       fnDot = c.dot /\ fnToadd = c.toadd
  /\ fnRet = -1
  /\ NoRun
  /\ live = {}
  /\ quiet = 0
  /\ plan = <<>>
  /\ loopI = 0
  /\ desc = <<>>

\* "if (dot_expand_or_move(state, dot, toadd, nadd)) return 1;"
ExpandCall ==
  /\ gpc = "call"
  /\ LET r == dot_expand_or_move(state, fnDot, fnToadd) IN
     /\ state' = r.state
     /\ fnRet' = r.ret
  /\ gpc' = "returned"
  /\ UNCHANGED <<solverVars, runVars, live, quiet, plan, loopI, divByZero,
                 desc, fnDot, fnToadd>>

ExpandNext == ExpandCall

ExpandSpec == ExpandInit /\ [][ExpandNext]_vars

\* the call is a fully symmetric growth: the image of every block tile about
\* the dot is another tile, outside the block and not yet associated
FullySymmetricGrowth ==
  /\ gpc = "call"
  /\ \A i \in 1 .. Len(fnToadd) :
       LET m == <<2 * fnDot[1] - fnToadd[i][1], 2 * fnDot[2] - fnToadd[i][2]>>
       IN /\ m \in TileCells(state)
          /\ \A j \in 1 .. Len(fnToadd) : m # fnToadd[j]
          /\ F_TILE_ASSOC \notin state.grid[m].flags

FrameCells(s) ==
  {c \in Spaces(s) :
     c[1] = 0 \/ c[2] = 0 \/ c[1] = s.sx - 1 \/ c[2] = s.sy - 1}

\* C18: in every board state from clear_game to the end of the outlining
\* pass (and on the board handed to encode_game), every cell of the outermost
\* ring of the internal grid has the edge-set flag.
C18_FrameAlwaysEdgeSet ==
  Generating =>
    \A c \in FrameCells(state) : F_EDGE_SET \in state.grid[c].flags

C18_Witness ==
  /\ gpc = "outline"
  /\ loopI = state.sx * state.sy
  /\ \E c \in Interior(state) : F_EDGE_SET \in state.grid[c].flags
  /\ \A c \in FrameCells(state) : F_EDGE_SET \in state.grid[c].flags

\* the edge cells of the board
EdgeCells(s) == {c \in Spaces(s) : SpaceType(c[1], c[2]) = "s_edge"}

\* the two cells on either side of an edge cell, across the edge
Flanks(c) ==
  IF c[1] % 2 = 0 THEN {<<c[1] - 1, c[2]>>, <<c[1] + 1, c[2]>>}
  ELSE {<<c[1], c[2] - 1>>, <<c[1], c[2] + 1>>}

\* both flanking tiles exist, both are associated, and to the same dot
SameRegionAcross(s, c) ==
  /\ Flanks(c) \subseteq TileCells(s)
  /\ \A t \in Flanks(c) : F_TILE_ASSOC \in s.grid[t].flags
  /\ \A t, u \in Flanks(c) : OwnerOf(s, t) = OwnerOf(s, u)

\* generate_new_game has returned
Outlined == gpc = "done" \/ (gpc = "outline" /\ loopI = state.sx * state.sy)

\* C19: after generate_new_game, an edge cell is edge-set exactly when its
\* two flanking tiles do not both exist, or are not both associated, or are
\* associated to different dots.
C19_EdgeSetIffRegionsDiffer ==
  Outlined =>
    \A c \in EdgeCells(state) :
      F_EDGE_SET \in state.grid[c].flags <=> ~SameRegionAcross(state, c)

C19_Witness ==
  /\ Outlined
  /\ \E c \in EdgeCells(state) \cap Interior(state) :
       F_EDGE_SET \in state.grid[c].flags /\ c[1] % 2 = 0
  /\ \E c \in EdgeCells(state) \cap Interior(state) :
       F_EDGE_SET \notin state.grid[c].flags
  /\ \A c \in EdgeCells(state) :
       F_EDGE_SET \in state.grid[c].flags <=> ~SameRegionAcross(state, c)

\* the rectangle around a cell in which a dot rules out another one: one
\* cell each way around a tile, two cells across and one along an edge, two
\* cells each way around a vertex
DotRect(c) ==
  LET rx == IF c[1] % 2 = 1 THEN 1 ELSE 2
      ry == IF c[2] % 2 = 1 THEN 1 ELSE 2
  IN [rx |-> rx, ry |-> ry,
      cells |-> ((c[1] - rx) .. (c[1] + rx)) \X ((c[2] - ry) .. (c[2] + ry))]

\* a dot may be put on cell c of board s: in the rectangle around c there
\* is no other dot and no associated tile, and strictly inside it no cell
\* that is edge-set
DotFeasible(s, c) ==
  LET r == DotRect(c) IN
  \A a \in r.cells \cap Spaces(s) :
    /\ (a # c => F_DOT \notin s.grid[a].flags)
    /\ F_TILE_ASSOC \notin s.grid[a].flags
    /\ (Abs(a[1] - c[1]) < r.rx /\ Abs(a[2] - c[2]) < r.ry
          => F_EDGE_SET \notin s.grid[a].flags)

\* C20: a cell carries at most one dot, and whenever the generator sets
\* the dot flag on a cell, that cell was feasible for a dot on the board as it
\* was just before: no other dot and no associated tile in its rectangle, no
\* edge-set cell strictly inside.
C20_DotsOnlyWhereFeasible ==
  [][\A c \in Spaces(state) :
       /\ gpc = "pass"
       /\ F_DOT \notin state.grid[c].flags
       /\ F_DOT \in state'.grid[c].flags
       => /\ DotFeasible(state, c)
          /\ \A a \in Spaces(state) \ {c} :
               (F_DOT \in state'.grid[a].flags) = (F_DOT \in state.grid[a].flags)]_vars

C20_Witness ==
  /\ gpc = "pass"
  /\ \E c, d, e \in DotCells(state) :
       /\ SpaceType(c[1], c[2]) = "s_tile"
       /\ SpaceType(d[1], d[2]) = "s_edge"
       /\ SpaceType(e[1], e[2]) = "s_edge"
       /\ d # e

\* ------------------------------------------ random numbers (generator)
\* unsigned long is 64 bits wide.  The arithmetic of random_new is done on
\* four 16-bit limbs, least significant first; the words of random_state
\* are sets of bit positions.
Limb == 65536

\* the word of a number 0 <= n < 2^31
WordOf(n) == <<n % Limb, (n \div Limb) % Limb, 0, 0>>

\* a + b modulo 2^64
AddWord(a, b) ==
  LET t1 == a[1] + b[1]
      t2 == a[2] + b[2] + t1 \div Limb
      t3 == a[3] + b[3] + t2 \div Limb
      t4 == a[4] + b[4] + t3 \div Limb
  IN <<t1 % Limb, t2 % Limb, t3 % Limb, t4 % Limb>>

\* a * c modulo 2^64 for a factor c < 2^15
MulSmall(a, c) ==
  LET t1 == a[1] * c
      t2 == a[2] * c + t1 \div Limb
      t3 == a[3] * c + t2 \div Limb
      t4 == a[4] * c + t3 \div Limb
  IN <<t1 % Limb, t2 % Limb, t3 % Limb, t4 % Limb>>

\* a * c modulo 2^64 for a factor c < 2^31
MulWord(a, c) ==
  AddWord(MulSmall(a, c % Limb),
          LET hi == MulSmall(a, c \div Limb) IN <<0, hi[1], hi[2], hi[3]>>)

\* the set of bit positions of a word
WordBits(a) ==
  {b \in 0 .. 63 : (a[b \div 16 + 1] \div (2 ^ (b % 16))) % 2 = 1}

\* the value of a word below 2^bits
WordVal(S, bits) ==
  LET v[k \in 0 .. bits] ==
        IF k = 0 THEN 0
        ELSE v[k - 1] + (IF k - 1 \in S THEN 2 ^ (k - 1) ELSE 0)
  IN v[bits]

Shl(S, k) == {b + k : b \in S} \cap (0 .. 63)

Shr(S, k) == {b - k : b \in S} \cap (0 .. 63)

\* the bytes of "time_t seed" for 0 <= n < 2^31 (little endian, 8 bytes)
SeedBytes(n) ==
  [i \in 1 .. 8 |-> IF i <= 4 THEN (n \div (256 ^ (i - 1))) % 256 ELSE 0]

RECURSIVE seed_hash(_, _, _)
\* "for (i = 0; i < len; i++) hash = hash * 31 + seed[i];"
seed_hash(seed, i, hash) ==
  IF i > Len(seed) THEN hash
  ELSE seed_hash(seed, i + 1,
                 AddWord(MulSmall(hash, 31), WordOf(seed[i])))

\* random_new
random_new(seed) ==
  LET hash == seed_hash(seed, 1, WordOf(0))
      s1   == AddWord(MulWord(hash, 1103515245), WordOf(12345))
      s2   == AddWord(MulWord(s1, 1103515245), WordOf(12345))
      s3   == AddWord(MulWord(s2, 1103515245), WordOf(12345))
  IN <<WordBits(hash), WordBits(s1), WordBits(s2), WordBits(s3)>>

\* random_bits: [rs, ret]
random_bits(r, bits) ==
  LET ret == XorHash(r[1], Shl(r[1], 11))
      s3  == XorHash(XorHash(r[4], Shr(r[4], 19)), XorHash(ret, Shr(ret, 8)))
  IN [rs  |-> <<r[2], r[3], r[4], s3>>,
      ret |-> IF bits < 32 THEN s3 \cap (0 .. bits - 1) ELSE s3]

RECURSIVE BitLen(_)
\* "while (max > 0) { bits++; max >>= 1; }"
BitLen(max) == IF max > 0 THEN 1 + BitLen(max \div 2) ELSE 0

RECURSIVE upto_loop(_, _, _)
\* "while (1) { ret = random_bits(rs, bits); if (ret < limit) return ret; }"
upto_loop(r, bits, limit) ==
  LET d == random_bits(r, bits) IN
  IF WordVal(d.ret, bits) < limit
  THEN [rs |-> d.rs, ret |-> WordVal(d.ret, bits)]
  ELSE upto_loop(d.rs, bits, limit)

\* random_upto: [rs, ret]
random_upto(r, limit) ==
  IF limit = 0 THEN [rs |-> r, ret |-> 0]
  ELSE upto_loop(r, BitLen(limit), limit)

\* one turn of shuffle's loop with index i (C elements i and j are the
\* sequence elements i + 1 and j + 1): [array, rs, j]
shuffle_step(array, i, r) ==
  LET d == random_upto(r, i + 1)
      j == d.ret
  IN [array |-> [array EXCEPT ![i + 1] = array[j + 1],
                              ![j + 1] = array[i + 1]],
      rs    |-> d.rs,
      j     |-> j]

RECURSIVE shuffle_from(_, _, _, _)
\* shuffle's loop from index i down to 1: [array, rs, draws]
shuffle_from(array, i, r, drawn) ==
  IF i < 1 THEN [array |-> array, rs |-> r, draws |-> drawn]
  ELSE LET t == shuffle_step(array, i, r)
       IN shuffle_from(t.array, i - 1, t.rs, Append(drawn, t.j))

\* shuffle: "for (i = nelts; i-- > 1; )"
shuffle(array, r) == shuffle_from(array, Len(array) - 1, r, <<>>)

\* --------------------------------------------- a run of the generator
\* outside[0 .. nout-1] of generate_try_block before the shuffle
outside_array(s, x1, y1, x2, y2) ==
  LET nx == (x2 - x1) \div 2 + 1
      ny == (y2 - y1) \div 2 + 1
      rows == [k \in 1 .. 2 * nx |->
                 <<x1 + 2 * ((k - 1) \div 2),
                   IF k % 2 = 1 THEN y1 - 2 ELSE y2 + 2>>]
      cols == [k \in 1 .. 2 * ny |->
                 <<IF k % 2 = 1 THEN x1 - 2 ELSE x2 + 2,
                   y1 + 2 * ((k - 1) \div 2)>>]
      inRows(c) == IF c[2] < y1 THEN y1 >= 2 ELSE y2 <= s.sy - 3
      inCols(c) == IF c[1] < x1 THEN x1 >= 2 ELSE x2 <= s.sx - 3
      all == SelectSeq(rows, inRows) \o SelectSeq(cols, inCols)
  IN IF Len(all) > MAX_OUTSIDE THEN SubSeq(all, 1, MAX_OUTSIDE) ELSE all

\* the dot that owns tile o
owner_of(s, o) == <<s.grid[o].dotx, s.grid[o].doty>>

\* the entries of outside[], in the order of the array, that make the loop
\* of generate_try_block return 1
growers(s, maxsz, toadd, outside) ==
  LET grows(o) ==
        /\ F_TILE_ASSOC \in s.grid[o].flags
        /\ s.grid[owner_of(s, o)].nassoc < maxsz
        /\ dot_expand_or_move(s, owner_of(s, o), toadd).ret = 1
  IN SelectSeq(outside, grows)

\* the loop over outside[]: the first entry that grows ends it
offer_block(s, toadd, hits) ==
  IF hits = <<>> THEN [ret |-> 0, state |-> s]
  ELSE [ret   |-> 1,
        state |-> dot_expand_or_move(s, owner_of(s, hits[1]), toadd).state]

\* the result of a call together with the random state it leaves
with_rs(res, r, drawn) ==
  [ret |-> res.ret, state |-> res.state, rs |-> r, draws |-> drawn]

\* generate_try_block from "shuffle(outside, nout, ...)" on, sh being what
\* the shuffle returns
try_block_shuffled(s, how, toadd, sh) ==
  with_rs(offer_block(s, toadd, growers(s, MaxSz(s, how), toadd, sh.array)),
          sh.rs, sh.draws)

\* generate_try_block with the random state r, the division not trapping:
\* [ret, state, rs, draws]
try_block_run(s, how, r, x1, y1, x2, y2) ==
  IF x1 < 0 \/ y1 < 0 \/ x2 >= s.sx \/ y2 >= s.sy
  THEN [ret |-> 0, state |-> s, rs |-> r, draws |-> <<>>]
  ELSE IF \/ \E i \in 1 .. Len(BlockTiles(x1, y1, x2, y2)) :
               F_TILE_ASSOC \in s.grid[BlockTiles(x1, y1, x2, y2)[i]].flags
          \/ Len(BlockTiles(x1, y1, x2, y2)) > MAX_TOADD
       THEN [ret |-> 0, state |-> s, rs |-> r, draws |-> <<>>]
       ELSE try_block_shuffled(s, how, BlockTiles(x1, y1, x2, y2),
                               shuffle(outside_array(s, x1, y1, x2, y2), r))

\* generate_pass after generate_try_block has returned g for cell sp at
\* loop index i (flags = GP_DOTS): [state, rs, draws]
after_block(s, g, sp, i) ==
  [state |-> IF g.ret = 1 THEN g.state
             ELSE IF SpaceType(sp[1], sp[2]) = "s_edge" /\ i % 2 = 1 THEN s
             ELSE IF dot_is_possible(s, sp, FALSE)
                  THEN solver_obvious_dot(add_dot(s, sp), sp)
                  ELSE s,
   rs    |-> g.rs,
   draws |-> g.draws]

\* one turn of generate_pass's loop for cell sp = scratch[i]
pass_cell_run(s, how, r, sp, i) ==
  after_block(s,
              IF SpaceType(sp[1], sp[2]) # "s_vertex"
              THEN try_block_run(s, how, r, BlockOf(sp)[1], BlockOf(sp)[2],
                                 BlockOf(sp)[3], BlockOf(sp)[4])
              ELSE [ret |-> 0, state |-> s, rs |-> r, draws |-> <<>>],
              sp, i)

\* variant: the --seed= argument is ignored
main_seed_ignoresArg(cl, clk) == clk

\* main: "time_t seed = time(NULL);" and "seed = atoi(argv[i] + 7);"
main_seed(cl, clk) == IF cl.seedGiven THEN cl.seed ELSE clk

\* the values time(NULL) takes
Clocks == {1700000000, 1700000001}

\* the command lines: --size=WxH, --seed=N or no seed, --count=N
CmdLines ==
  [w : 1 .. MaxW, h : 1 .. MaxH, seedGiven : {TRUE}, seed : {0, 42},
   count : {1, 2}]
    \cup [w : 1 .. MaxW, h : 1 .. MaxH, seedGiven : {FALSE}, seed : {0},
          count : {1, 2}]
    \cup [w : {2}, h : {2}, seedGiven : {TRUE}, seed : {7}, count : {1}]

\* main is entered: the first run of a command line
StartOfRun ==
  /\ SolverIdle
  /\ gpc = "main"
  /\ state = NoGame
  /\ live = {}
  /\ quiet = 0
  /\ plan = <<>>
  /\ loopI = 0
  /\ desc = <<>>
  /\ fnDot = NoSpace
  /\ fnToadd = <<>>
  /\ fnRet = -1
  /\ rs = <<{}, {}, {}, {}>>
  /\ scratch = <<>>
  /\ draws = <<>>
  /\ printed = <<>>

RunInit ==
  /\ StartOfRun
  /\ divByZero \in {"trap", "zero"}
  /\ cmdline \in CmdLines
  /\ clock \in Clocks
  /\ runNo = 1
  /\ firstRun = NoFirstRun

\* main: "rs = random_new(&seed, sizeof(seed));"
RandomNew ==
  /\ gpc = "main"
  /\ rs' = random_new(SeedBytes(main_seed(cmdline, clock)))
  /\ gpc' = "new"
  /\ UNCHANGED <<solverVars, fnVars, state, live, quiet, plan, loopI,
                 divByZero, desc, cmdline, clock, runNo, scratch, draws,
                 printed, firstRun>>

\* generate_new_game: blank_game, the scratch array, clear_game; then
\* generate_pass enters shuffle(scratch, sz, ...)
NewGame ==
  /\ gpc = "new"
  /\ state' = clear_game(blank_game(cmdline.w, cmdline.h))
  /\ scratch' = [k \in 1 .. state'.sx * state'.sy |-> k - 1]
  /\ loopI' = state'.sx * state'.sy - 1
  /\ desc' = <<>>
  /\ gpc' = "shuffle"
  /\ UNCHANGED <<solverVars, fnVars, live, quiet, plan, divByZero, cmdline,
                 clock, runNo, rs, draws, printed, firstRun>>

\* one turn of the loop of shuffle(scratch, sz, sizeof(int), rs)
ShuffleStep ==
  /\ gpc = "shuffle"
  /\ loopI >= 1
  /\ LET t == shuffle_step(scratch, loopI, rs) IN
     /\ scratch' = t.array
     /\ rs' = t.rs
     /\ draws' = Append(draws, t.j)
  /\ loopI' = loopI - 1
  /\ gpc' = IF loopI = 1 THEN "pass" ELSE "shuffle"
  /\ UNCHANGED <<solverVars, fnVars, state, live, quiet, plan, divByZero,
                 desc, cmdline, clock, runNo, printed, firstRun>>

\* the cell generate_pass visits at loop index loopI
ScratchCell == SpaceAt(state, scratch[loopI + 1])

\* generate_pass: generate_try_block divides by state->ndots = 0 and the
\* process is killed (SIGFPE)
RunTrap ==
  /\ gpc = "pass"
  /\ loopI < state.sx * state.sy
  /\ divByZero = "trap"
  /\ state.ndots = 0
  /\ ReachesDivision(state, ScratchCell)
  /\ gpc' = "crashed"
  /\ UNCHANGED <<solverVars, fnVars, runVars, state, live, quiet, plan,
                 loopI, divByZero, desc>>

\* generate_pass: one turn of the loop
RunCell ==
  /\ gpc = "pass"
  /\ loopI < state.sx * state.sy
  /\ ~(divByZero = "trap" /\ state.ndots = 0
         /\ ReachesDivision(state, ScratchCell))
  /\ LET t == pass_cell_run(state, divByZero, rs, ScratchCell, loopI) IN
     /\ state' = t.state
     /\ rs' = t.rs
     /\ draws' = draws \o t.draws
  /\ loopI' = loopI + 1
  /\ UNCHANGED <<solverVars, fnVars, gpc, live, quiet, plan, divByZero,
                 desc, cmdline, clock, runNo, scratch, printed, firstRun>>

\* main: "Game ID: WxH:desc" and the grid are printed; the next puzzle, or
\* the end of main
PrintGame ==
  /\ gpc = "done"
  /\ printed' = Append(printed, [board |-> state, id |-> desc])
  /\ gpc' = IF Len(printed') < cmdline.count THEN "new" ELSE "exit"
  /\ UNCHANGED <<solverVars, fnVars, state, live, quiet, plan, loopI,
                 divByZero, desc, cmdline, clock, runNo, rs, scratch, draws,
                 firstRun>>

\* the process has ended; the same command line is run once more
RunAgain ==
  /\ gpc \in {"exit", "crashed"}
  /\ runNo = 1
  /\ firstRun' = [clock   |-> clock,
                  seed    |-> SeedBytes(main_seed(cmdline, clock)),
                  draws   |-> draws,
                  printed |-> printed,
                  gpc     |-> gpc]
  /\ runNo' = 2
  /\ clock' \in Clocks
  /\ gpc' = "main"
  /\ state' = NoGame
  /\ loopI' = 0
  /\ desc' = <<>>
  /\ rs' = <<{}, {}, {}, {}>>
  /\ scratch' = <<>>
  /\ draws' = <<>>
  /\ printed' = <<>>
  /\ UNCHANGED <<solverVars, fnVars, live, quiet, plan, divByZero, cmdline>>

RunNext ==
  \/ RandomNew
  \/ NewGame
  \/ ShuffleStep
  \/ RunTrap
  \/ RunCell
  \/ GameUpdateDots
  \/ OutlineTile
  \/ OutlineSkip
  \/ EncodeGame
  \/ PrintGame
  \/ RunAgain

RunSpec == RunInit /\ [][RunNext]_vars

\* C21: when the generator is run twice with the same size and count and
\* the same seed (the same --seed= argument, or no such argument and the
\* same clock value), the second run seeds with the same bytes, makes the
\* same random draws in the same order and prints the same boards and
\* Game-ID strings, and it ends the way the first run ended
C21_SameSeedSameRun ==
  (runNo = 2 /\ (cmdline.seedGiven \/ clock = firstRun.clock)) =>
    /\ SeedBytes(main_seed(cmdline, clock)) = firstRun.seed
    /\ Len(draws) <= Len(firstRun.draws)
    /\ \A k \in 1 .. Len(draws) : draws[k] = firstRun.draws[k]
    /\ Len(printed) <= Len(firstRun.printed)
    /\ \A k \in 1 .. Len(printed) : printed[k] = firstRun.printed[k]
    /\ gpc \in {"exit", "crashed"} =>
         /\ gpc = firstRun.gpc
         /\ draws = firstRun.draws
         /\ printed = firstRun.printed

\* both runs of a seeded command line for two puzzles have ended, each
\* after printing two boards that differ
C21_Witness ==
  /\ runNo = 2
  /\ cmdline.seedGiven
  /\ clock # firstRun.clock
  /\ gpc = "exit"
  /\ Len(printed) = 2
  /\ printed[1].id # printed[2].id
  /\ Len(draws) > 0
  /\ printed = firstRun.printed

\* ------------------------------- level-parallel BFS (openmp_solver.c)
\* a thread of the team of one level
LvThread(tpc) ==
  [pc |-> tpc, s |-> EmptyState(0, 0), succ |-> <<>>, pos |-> 1, local |-> <<>>]

\* variant: the hash is reported as added although the table holds it
check_and_add_visited_alwaysAdded(hash, vis) ==
  [added |-> TRUE, visited |-> vis \cup {hash}]

\* check_and_add_visited as one step (the bucket's lock is held from the
\* search of the chain to the insertion)
check_and_add_visited(hash, vis) ==
  [added |-> hash \notin vis, visited |-> vis \cup {hash}]

\* the successors the "for d" loop of a thread builds for state s and hands
\* to check_and_add_visited, in the order of the scan
LvSuccessors(p, zob, s) ==
  LET m == p.w * p.h * 4 + 9
      c == [j \in 1 .. NDots(p) * m |->
              c_scanCandidate(p, zob, s, (j - 1) \div m, (j - 1) % m)]
      built(x) == x # <<>>
      kept == SelectSeq(c, built)
  IN [k \in 1 .. Len(kept) |-> kept[k][1]]

\* the programs with a team of threads
ParDrivers == {"omp_dfs", "omp_bfs"}

\* a board with more than one accepted grid: 3 x 3 with three dots on the
\* tile centres of the middle row
IdMiddleRow ==
  [w |-> 3, h |-> 3, data |-> <<"v", "M", "a", "M", "a", "M", "v">>]

\* a board on which the depth-first search runs out of moves below the root
IdDeadEnd == [w |-> 3, h |-> 2, data |-> <<"q", "M", "q", "M">>]

\* the Game IDs given to the programs with a team of threads: the boards
\* of at most two tiles and the two boards above
ParIds == {g \in GameIds : g.w * g.h <= 2} \cup {IdMiddleRow, IdDeadEnd}

\* the team on a board of more than two tiles has at most two threads
ParInit ==
  /\ driver \in ParDrivers
  /\ gameId \in ParIds
  /\ maxThreads \in 1 .. (IF gameId.w * gameId.h <= 2 THEN MaxThreads ELSE 2)
  /\ pc = "parse"
  /\ puzzle = NoPuzzle
  /\ zobrist = initZobrist(0, 0)
  /\ cur = EmptyState(0, 0)
  /\ queue = <<>>
  /\ visited = {}
  /\ stack = <<>>
  /\ retval = FALSE
  /\ iterations = 0
  /\ seedFailed = FALSE
  /\ stderrMsg = FALSE
  /\ verdict = "pending"
  /\ solution = EmptyGrid(0, 0)
  /\ threads = <<>>
  /\ found = FALSE
  /\ parSolution = EmptyGrid(0, 0)
  /\ rootMoves = <<>>
  /\ nextRoot = 1
  /\ commits = 0
  /\ level = <<>>
  /\ levelI = 0
  /\ NoCalls
  /\ gpc = "idle"
  /\ state = NoGame
  /\ live = {}
  /\ quiet = 0
  /\ plan = <<>>
  /\ loopI = 0
  /\ divByZero = "trap"
  /\ desc = <<>>
  /\ fnDot = NoSpace
  /\ fnToadd = <<>>
  /\ fnRet = -1
  /\ NoRun

\* main() of openmp_solver.c: parse_game_id, and solve() up to the pre-fill
LvParse ==
  /\ pc = "parse" /\ driver = "omp_bfs"
  /\ LET p == parse_game_id(gameId) IN
     /\ puzzle' = p
     /\ zobrist' = initZobrist(p.w * p.h, Len(p.dots))
     /\ cur' = EmptyState(p.w, p.h)
  /\ pc' = "seed"
  /\ UNCHANGED <<parVars, genVars, lockVars, driver, gameId, maxThreads, queue, visited,
                 stack, retval, iterations, seedFailed, stderrMsg, verdict,
                 solution>>

\* solve(): the pre-fill loop, "enqueue(initial);
\* check_and_add_visited(initial->hash);"
LvSeed ==
  /\ pc = "seed" /\ driver = "omp_bfs"
  /\ LET r == c_prefill(puzzle, zobrist, cur, 0) IN
       /\ cur' = r.s
       /\ IF r.ok
          THEN /\ queue' = <<r.s>>
               /\ visited' = check_and_add_visited(r.s.hash, visited).visited
               /\ pc' = "level"
               /\ UNCHANGED <<seedFailed, verdict>>
          ELSE /\ seedFailed' = TRUE
               /\ verdict' = "error"
               /\ pc' = "done"
               /\ UNCHANGED <<queue, visited>>
  /\ UNCHANGED <<parVars, genVars, lockVars, driver, gameId, maxThreads, puzzle, zobrist,
                 stack, retval, iterations, stderrMsg, solution>>

\* "while (queue_head && !solution_found)": the queue becomes level_states
\* and the parallel region is entered
LvExtract ==
  /\ pc = "level" /\ driver = "omp_bfs"
  /\ queue # <<>> /\ ~found
  /\ level' = queue
  /\ queue' = <<>>
  /\ levelI' = 0
  /\ threads' = [t \in 0 .. maxThreads - 1 |-> LvThread("grab")]
  /\ pc' = "parallel"
  /\ UNCHANGED <<genVars, lockVars, driver, gameId, maxThreads, puzzle, zobrist, cur,
                 visited, stack, retval, iterations, seedFailed, stderrMsg,
                 verdict, solution, found, parSolution, rootMoves, nextRoot,
                 commits>>

\* the while loop ends: "if (!solution_found) printf("No solution found.")"
LvEnd ==
  /\ pc = "level" /\ driver = "omp_bfs"
  /\ queue = <<>> \/ found
  /\ verdict' = IF found THEN "solved" ELSE "no_solution"
  /\ pc' = "done"
  /\ UNCHANGED <<parVars, genVars, lockVars, driver, gameId, maxThreads, puzzle, zobrist,
                 cur, queue, visited, stack, retval, iterations, seedFailed,
                 stderrMsg, solution>>

LvUnchanged ==
  UNCHANGED <<genVars, lockVars, driver, gameId, maxThreads, pc, puzzle, zobrist, cur,
              stack, retval, iterations, seedFailed, stderrMsg, verdict,
              parSolution, rootMoves, nextRoot, level>>

\* a thread takes the next iteration of the omp for loop.  Its read of
\* solution_found is not ordered with the write in the critical section of
\* another thread: once the flag is set the read may still give false.
LvGrab(t) ==
  /\ t \in DOMAIN threads
  /\ pc = "parallel" /\ driver = "omp_bfs" /\ threads[t].pc = "grab"
  /\ IF levelI >= Len(level)
     THEN /\ threads' = [threads EXCEPT ![t].pc = "merge"]
          /\ UNCHANGED levelI
     ELSE /\ levelI' = levelI + 1
          /\ \E seen \in (IF found THEN {TRUE, FALSE} ELSE {FALSE}) :
               IF seen
               THEN UNCHANGED threads
               ELSE threads' = [threads EXCEPT
                      ![t].s = level[levelI + 1],
                      ![t].succ =
                        IF level[levelI + 1].filledCount = puzzle.w * puzzle.h
                        THEN <<>>
                        ELSE LvSuccessors(puzzle, zobrist, level[levelI + 1]),
                      ![t].pos = 1,
                      ![t].pc = "process"]
  /\ UNCHANGED <<queue, visited, found, solution, commits>>
  /\ LvUnchanged

\* "if (s->filled_count == p->w * p->h)": the dots are verified
LvFull(t) ==
  /\ t \in DOMAIN threads
  /\ pc = "parallel" /\ driver = "omp_bfs" /\ threads[t].pc = "process"
  /\ threads[t].s.filledCount = puzzle.w * puzzle.h
  /\ threads' = [threads EXCEPT
       ![t].pc = IF c_all_dots_used(puzzle, threads[t].s)
                 THEN "critical" ELSE "grab"]
  /\ UNCHANGED <<queue, visited, found, solution, commits, levelI>>
  /\ LvUnchanged

\* "#pragma omp critical { if (!solution_found) { print_solution(p, s);
\* solution_found = true; } }"
LvCommit(t) ==
  /\ t \in DOMAIN threads
  /\ pc = "parallel" /\ driver = "omp_bfs" /\ threads[t].pc = "critical"
  /\ IF ~found
     THEN /\ solution' = threads[t].s.grid
          /\ commits' = commits + 1
          /\ found' = TRUE
     ELSE UNCHANGED <<solution, commits, found>>
  /\ threads' = [threads EXCEPT ![t].pc = "grab"]
  /\ UNCHANGED <<queue, visited, levelI>>
  /\ LvUnchanged

\* the expansion loops up to and with the next call of
\* check_and_add_visited, or to their end
LvExpand(t) ==
  /\ t \in DOMAIN threads
  /\ pc = "parallel" /\ driver = "omp_bfs" /\ threads[t].pc = "process"
  /\ threads[t].s.filledCount # puzzle.w * puzzle.h
  /\ LET th == threads[t] IN
     IF th.pos > Len(th.succ)
     THEN /\ threads' = [threads EXCEPT ![t].pc = "grab"]
          /\ UNCHANGED visited
     ELSE LET r == check_and_add_visited(th.succ[th.pos].hash, visited) IN
          /\ visited' = r.visited
          /\ threads' = [threads EXCEPT
               ![t].pos = th.pos + 1,
               ![t].local = IF r.added THEN Append(@, th.succ[th.pos]) ELSE @]
  /\ UNCHANGED <<queue, found, solution, commits, levelI>>
  /\ LvUnchanged

\* "#pragma omp critical": the thread's list is appended to the queue
LvMerge(t) ==
  /\ t \in DOMAIN threads
  /\ pc = "parallel" /\ driver = "omp_bfs" /\ threads[t].pc = "merge"
  /\ queue' = queue \o threads[t].local
  /\ threads' = [threads EXCEPT ![t].pc = "finished"]
  /\ UNCHANGED <<visited, found, solution, commits, levelI>>
  /\ LvUnchanged

\* the end of the parallel region, the states of the level are freed
LvJoin ==
  /\ pc = "parallel" /\ driver = "omp_bfs"
  /\ \A t \in DOMAIN threads : threads[t].pc = "finished"
  /\ threads' = <<>>
  /\ level' = <<>>
  /\ pc' = "level"
  /\ UNCHANGED <<genVars, lockVars, driver, gameId, maxThreads, puzzle, zobrist, cur,
                 queue, visited, stack, retval, iterations, seedFailed,
                 stderrMsg, verdict, solution, found, parSolution, rootMoves,
                 nextRoot, commits, levelI>>

ParNext ==
  \/ (driver = "omp_dfs" /\ Parse)
  \/ OmpSeed \/ OmpJoin \/ OmpFallbackReturn
  \/ \E t \in 0 .. MaxThreads - 1 : OmpGrab(t)
  \/ \E t \in 0 .. MaxThreads - 1 : OmpRootVisit(t)
  \/ \E t \in 0 .. MaxThreads - 1 : OmpDfsEnter(t)
  \/ \E t \in 0 .. MaxThreads - 1 : OmpCas(t)
  \/ \E t \in 0 .. MaxThreads - 1 : OmpCommit(t)
  \/ \E t \in 0 .. MaxThreads - 1 : OmpDfsApply(t)
  \/ \E t \in 0 .. MaxThreads - 1 : OmpDfsVisit(t)
  \/ \E t \in 0 .. MaxThreads - 1 : OmpDfsUndo(t)
  \/ \E t \in 0 .. MaxThreads - 1 : OmpDfsLoopEnd(t)
  \/ \E t \in 0 .. MaxThreads - 1 : OmpDfsReturn(t)
  \/ \E t \in 0 .. MaxThreads - 1 : OmpRootReturn(t)
  \/ LvParse \/ LvSeed \/ LvExtract \/ LvEnd \/ LvJoin
  \/ \E t \in 0 .. MaxThreads - 1 : LvGrab(t)
  \/ \E t \in 0 .. MaxThreads - 1 : LvFull(t)
  \/ \E t \in 0 .. MaxThreads - 1 : LvCommit(t)
  \/ \E t \in 0 .. MaxThreads - 1 : LvExpand(t)
  \/ \E t \in 0 .. MaxThreads - 1 : LvMerge(t)

ParSpec == ParInit /\ [][ParNext]_vars

\* C22: in the parallel solvers the solution is committed at most once per
\* run under every interleaving of the workers: at most one worker writes
\* the shared solution grid (parallel DFS) or prints a solution
\* (level-parallel BFS), and when the run reports a solution the grid
\* returned is the full, accepted grid written by that one commit.
C22_CommittedAtMostOnce ==
  /\ commits <= 1
  /\ (driver \in ParDrivers /\ pc = "done" /\ verdict = "solved") =>
       /\ commits = 1
       /\ AcceptableGrid(puzzle, solution)

\* a second worker stands at the gate after the winner has committed
C22_Witness ==
  /\ driver \in ParDrivers
  /\ commits = 1 /\ found
  /\ \E t \in DOMAIN threads : threads[t].pc \in {"cas", "critical"}

\* ------------------------------------------ the visited set, step by step
\* The test-and-insert of the two parallel programs, one step for each
\* access to the lock or to the table, run by several callers at once.
HASH_TABLE_SIZE == 1000003

NUM_LOCKS == 1024

\* the generator does not run
GenIdle ==
  /\ gpc = "idle"
  /\ state = NoGame
  /\ live = {}
  /\ quiet = 0
  /\ plan = <<>>
  /\ loopI = 0
  /\ divByZero = "trap"
  /\ desc = <<>>
  /\ fnDot = NoSpace
  /\ fnToadd = <<>>
  /\ fnRet = -1
  /\ NoRun

\* the hash values the callers pass: two keys of one chain, a key of
\* another chain under the same lock, a key under another lock
VisHashes == {5, 5 + HASH_TABLE_SIZE, 5 + NUM_LOCKS, 6}

\* "int idx = hash % HASH_TABLE_SIZE"; Shared::visited is one set
bucket_of(impl, hash) ==
  IF impl = "omp_bfs" THEN hash % HASH_TABLE_SIZE ELSE 0

\* "int lock_idx = idx % NUM_LOCKS"; Shared::lock is one lock
lock_of(impl, hash) ==
  IF impl = "omp_bfs" THEN bucket_of(impl, hash) % NUM_LOCKS ELSE 0

\* visited[idx], NULL where nothing has been inserted
chain_of(tab, idx) == IF idx \in DOMAIN tab THEN tab[idx] ELSE <<>>

\* variant: the lock is taken whether or not it is held
omp_set_lock_unchecked(held, l) == TRUE

\* omp_set_lock(&lock) returns when no thread holds the lock
omp_set_lock(held, l) == l \notin held

IdleCall == [pc |-> "idle", hash |-> 0, entry |-> 0, found |-> FALSE,
             added |-> FALSE, rets |-> <<>>]

\* a team of maxThreads threads is about to call the test-and-insert of
\* the program "driver" on an empty table
VisInit ==
  /\ driver \in ParDrivers
  /\ maxThreads \in 1 .. MaxThreads
  /\ pc = "calls"
  /\ gameId = [w |-> 0, h |-> 0, data |-> <<>>]
  /\ puzzle = NoPuzzle
  /\ zobrist = initZobrist(0, 0)
  /\ cur = EmptyState(0, 0)
  /\ queue = <<>>
  /\ visited = {}
  /\ stack = <<>>
  /\ retval = FALSE
  /\ iterations = 0
  /\ seedFailed = FALSE
  /\ stderrMsg = FALSE
  /\ verdict = "pending"
  /\ solution = EmptyGrid(0, 0)
  /\ threads = <<>>
  /\ found = FALSE
  /\ parSolution = EmptyGrid(0, 0)
  /\ rootMoves = <<>>
  /\ nextRoot = 1
  /\ commits = 0
  /\ level = <<>>
  /\ levelI = 0
  /\ GenIdle
  /\ hash_locks = {}
  /\ buckets = <<>>
  /\ calls = [c \in 0 .. maxThreads - 1 |-> IdleCall]

VisUnchanged ==
  UNCHANGED <<genVars, driver, gameId, maxThreads, pc, puzzle, zobrist, cur,
              queue, visited, stack, retval, iterations, seedFailed,
              stderrMsg, verdict, solution, parVars>>

\* a thread makes its call of check_and_add_visited(hash) / insertIfNew(h)
VisCall(c) ==
  /\ pc = "calls" /\ c \in DOMAIN calls
  /\ calls[c].pc = "idle" /\ calls[c].rets = <<>>
  /\ \E h \in VisHashes :
       calls' = [calls EXCEPT ![c].pc = "lock", ![c].hash = h,
                              ![c].entry = 0, ![c].found = FALSE,
                              ![c].added = FALSE]
  /\ UNCHANGED <<hash_locks, buckets>>
  /\ VisUnchanged

\* "omp_set_lock(&hash_locks[lock_idx]); HashEntry *entry = visited[idx];"
VisLock(c) ==
  /\ pc = "calls" /\ c \in DOMAIN calls
  /\ calls[c].pc = "lock"
  /\ omp_set_lock(hash_locks, lock_of(driver, calls[c].hash))
  /\ hash_locks' = hash_locks \cup {lock_of(driver, calls[c].hash)}
  /\ calls' = [calls EXCEPT ![c].pc = "search", ![c].entry = 1]
  /\ UNCHANGED buckets
  /\ VisUnchanged

\* one turn of "while (entry)": the key of the entry is compared, or the
\* end of the chain is met
VisSearch(c) ==
  /\ pc = "calls" /\ c \in DOMAIN calls
  /\ calls[c].pc = "search"
  /\ LET ch == chain_of(buckets, bucket_of(driver, calls[c].hash)) IN
     calls' =
       IF calls[c].entry > Len(ch)
       THEN [calls EXCEPT ![c].pc = "insert"]
       ELSE IF ch[calls[c].entry] = calls[c].hash
            THEN [calls EXCEPT ![c].found = TRUE, ![c].pc = "unlock"]
            ELSE [calls EXCEPT ![c].entry = @ + 1]
  /\ UNCHANGED <<hash_locks, buckets>>
  /\ VisUnchanged

\* "if (!found)": the new entry is put at the head of the chain
VisInsert(c) ==
  /\ pc = "calls" /\ c \in DOMAIN calls
  /\ calls[c].pc = "insert"
  /\ LET idx == bucket_of(driver, calls[c].hash) IN
     buckets' = [i \in DOMAIN buckets \cup {idx} |->
                   IF i = idx THEN <<calls[c].hash>> \o chain_of(buckets, idx)
                   ELSE buckets[i]]
  /\ calls' = [calls EXCEPT ![c].added = TRUE, ![c].pc = "unlock"]
  /\ UNCHANGED hash_locks
  /\ VisUnchanged

\* "omp_unset_lock(&hash_locks[lock_idx]); return added;"
VisUnlock(c) ==
  /\ pc = "calls" /\ c \in DOMAIN calls
  /\ calls[c].pc = "unlock"
  /\ hash_locks' = hash_locks \ {lock_of(driver, calls[c].hash)}
  /\ calls' = [calls EXCEPT
       ![c].rets = Append(@, [hash |-> calls[c].hash, added |-> calls[c].added]),
       ![c].pc = "idle"]
  /\ UNCHANGED buckets
  /\ VisUnchanged

VisNext ==
  \/ \E c \in 0 .. MaxThreads - 1 : VisCall(c)
  \/ \E c \in 0 .. MaxThreads - 1 : VisLock(c)
  \/ \E c \in 0 .. MaxThreads - 1 : VisSearch(c)
  \/ \E c \in 0 .. MaxThreads - 1 : VisInsert(c)
  \/ \E c \in 0 .. MaxThreads - 1 : VisUnlock(c)

VisSpec == VisInit /\ [][VisNext]_vars

\* the calls with hash h that have returned the value v
ReturnsOf(h, v) ==
  {c \in DOMAIN calls : calls[c].rets = <<[hash |-> h, added |-> v]>>}

\* the places of the table where h is stored
StoredAt(h) ==
  {<<idx, k>> \in (DOMAIN buckets) \X (1 .. MaxThreads) :
     k <= Len(buckets[idx]) /\ buckets[idx][k] = h}

\* C23: the test-and-insert of the shared visited set is atomic: under
\* every interleaving of concurrent calls with a hash value h, h is stored
\* at most once, at most one call returns true, and once any call with h
\* has returned exactly one call has returned true (all others false).
C23_TestAndInsertAtomic ==
  \A h \in VisHashes :
    /\ Cardinality(StoredAt(h)) <= 1
    /\ Cardinality(ReturnsOf(h, TRUE)) <= 1
    /\ ReturnsOf(h, FALSE) # {} => Cardinality(ReturnsOf(h, TRUE)) = 1

\* two calls with the same hash were in flight together: one holds the
\* lock and has inserted, the other waits for the lock
C23_Witness ==
  \E c, d \in DOMAIN calls :
    /\ c # d /\ calls[c].hash = calls[d].hash
    /\ calls[c].pc = "unlock" /\ calls[c].added
    /\ calls[d].pc = "lock"

DfsDrivers == {"seq_dfs", "omp_dfs"}

\* an accepted grid can be reached from the seeded state by pair moves
SolvableFromSeed ==
  SeededState.ok /\ AcceptReachable(puzzle, SeededState.s.grid)

\* C24: the parallel DFS with the shared insert-only visited set gives the
\* verdict of the sequential DFS (the Zobrist words being collision free):
\* for every puzzle, every number of threads and every interleaving, each
\* of the two drivers reports a solution exactly when an accepted grid can
\* be reached from the seeded state, so one reports a solution if and only
\* if the other does.
C24_ParallelDfsVerdictIsSequential ==
  (pc = "done" /\ driver \in DfsDrivers) =>
    ((verdict = "solved") <=> SolvableFromSeed)

\* the same, leaving out the runs of a team of several threads whose list
\* of root moves is empty
C24_ExceptEmptyRootList ==
  (pc = "done" /\ driver \in DfsDrivers
     /\ ~(driver = "omp_dfs" /\ maxThreads > 1 /\ rootMoves = <<>>)) =>
    ((verdict = "solved") <=> SolvableFromSeed)

\* C25: every puzzle returned by the Game-ID decoder has all its dots inside
\* the internal grid, 0 <= dot.x < sx and 0 <= dot.y < sy, also when the
\* skips and dots of the data string run past the sx * sy cells.
C25_DecodedDotsInGrid ==
  pc # "parse" =>
    \A i \in 1 .. Len(puzzle.dots) :
      /\ 0 <= puzzle.dots[i].x /\ puzzle.dots[i].x < puzzle.sx
      /\ 0 <= puzzle.dots[i].y /\ puzzle.dots[i].y < puzzle.sy

\* the cell visited next by generate_pass makes generate_try_block evaluate
\* (state->w * state->h) / state->ndots
AtDivision ==
  /\ gpc = "pass"
  /\ loopI < state.sx * state.sy
  /\ ReachesDivision(state, ScratchCell)

\* C27: whenever generate_try_block reaches the computation of maxsz during
\* generate_pass the divisor state->ndots is at least 1: generation never
\* divides by zero.
C27_DivisorAtLeastOne ==
  AtDivision => state.ndots >= 1

\* max(4, tiles / count)
MaxOfFour(tiles, count) ==
  IF CDiv(tiles, count) < 4 THEN 4 ELSE CDiv(tiles, count)

\* C26: in generate_try_block the divisor of maxsz is the number of dots
\* placed on the board so far, and with at least one dot placed maxsz is
\* max(4, W * H / that number); a dot owning an adjacent outside tile is
\* offered the block only while its nassoc is below this maxsz.
C26_MaxszFromDotsPlaced ==
  AtDivision =>
    /\ state.ndots = Cardinality(DotCells(state))
    /\ Cardinality(DotCells(state)) >= 1 =>
         MaxSz(state, divByZero)
           = MaxOfFour(state.w * state.h, Cardinality(DotCells(state)))

\* ------------------------------- generate_try_block called on its own
\* what the call of dot_expand_or_move at outside[i] leaves: the loop ends
\* with 1 when it succeeds, and goes on from the board it left otherwise
RECURSIVE try_block_loop(_, _, _, _, _)
try_block_offer(s, maxsz, toadd, outside, i, r) ==
  IF r.ret = 1 THEN [ret |-> 1, state |-> r.state]
  ELSE try_block_loop(r.state, maxsz, toadd, outside, i + 1)

\* "for (i = 0; i < nout; i++)" of generate_try_block: [ret, state]
try_block_loop(s, maxsz, toadd, outside, i) ==
  IF i > Len(outside) THEN [ret |-> 0, state |-> s]
  ELSE IF F_TILE_ASSOC \notin s.grid[outside[i]].flags
       THEN try_block_loop(s, maxsz, toadd, outside, i + 1)
       ELSE IF s.grid[owner_of(s, outside[i])].nassoc >= maxsz
            THEN try_block_loop(s, maxsz, toadd, outside, i + 1)
            ELSE try_block_offer(s, maxsz, toadd, outside, i,
                   dot_expand_or_move(s, owner_of(s, outside[i]), toadd))

\* outside[] of the block toadd, before the shuffle
outside_of(s, toadd) ==
  outside_array(s, toadd[1][1], toadd[1][2],
                toadd[Len(toadd)][1], toadd[Len(toadd)][2])

\* generate_try_block on the block fnToadd (all of its tiles unassociated),
\* the shuffle leaving outside[] in any order
TryBlockCall ==
  /\ gpc = "call"
  /\ \E perm \in Permutations(1 .. Len(outside_of(state, fnToadd))) :
       LET r == try_block_loop(state, MaxSz(state, divByZero), fnToadd,
                  [k \in 1 .. Len(perm) |-> outside_of(state, fnToadd)[perm[k]]],
                  1)
       IN /\ state' = r.state
          /\ fnRet' = r.ret
  /\ gpc' = "block_returned"
  /\ UNCHANGED <<solverVars, runVars, live, quiet, plan, loopI, divByZero,
                 desc, fnDot, fnToadd>>

BlockNext == ExpandCall \/ TryBlockCall

BlockSpec == ExpandInit /\ [][BlockNext]_vars

\* some block tile has its partner about dot D off the board or associated
\* to a dot other than D
ProposalRejected(s, D, toadd) ==
  \E i \in 1 .. Len(toadd) :
    LET m == <<2 * D[1] - toadd[i][1], 2 * D[2] - toadd[i][2]>> IN
    \/ m \notin Spaces(s)
    \/ /\ F_TILE_ASSOC \in s.grid[m].flags
       /\ <<s.grid[m].dotx, s.grid[m].doty>> # D

\* C28: when dot_expand_or_move rejects a proposal (some toadd[i] has its
\* partner about D out of bounds or associated to a different dot) it
\* returns 0 and leaves the whole board unchanged: no flag, owner coordinate
\* or nassoc is modified; and a generate_try_block call that returns 0
\* changes no cell.
C28_RejectionChangesNothing ==
  [][/\ (gpc = "call" /\ gpc' = "returned") =>
          /\ ProposalRejected(state, fnDot, fnToadd) <=> fnRet' = 0
          /\ fnRet' = 0 => state' = state
     /\ (gpc = "call" /\ gpc' = "block_returned" /\ fnRet' = 0) =>
          state' = state]_vars

\* generate_try_block has returned 0 after dot_expand_or_move rejected the
\* proposal for the dot fnDot, whose size allowed the offer
C28_Witness ==
  /\ gpc = "block_returned" /\ fnRet = 0
  /\ ProposalRejected(state, fnDot, fnToadd)
  /\ state.grid[fnDot].nassoc < MaxSz(state, divByZero)
  /\ Cardinality(DotCells(state)) = 2

\* ------------------------------- solver_obvious_dot called on its own
\* solver_obvious_dot with its return value: [ret, state]
RECURSIVE obvious_ret_scan(_, _, _, _, _)
obvious_ret_scan(s, dot, ts, k, ret) ==
  IF k > Len(ts) THEN [ret |-> ret, state |-> s]
  ELSE IF F_TILE_ASSOC \in s.grid[ts[k]].flags
       THEN obvious_ret_scan(s, dot, ts, k + 1, ret)
       ELSE IF space_opposite_dot(s, ts[k], dot) = NULL
            THEN obvious_ret_scan(s, dot, ts, k + 1, ret)
            ELSE IF OwnedByOther(s, space_opposite_dot(s, ts[k], dot), dot)
                 THEN obvious_ret_scan(s, dot, ts, k + 1, ret)
                 ELSE obvious_ret_scan(obvious_scan(s, dot, <<ts[k]>>, 1),
                                       dot, ts, k + 1, 1)

\* variant: only the first tile of the scan is looked at
solver_obvious_dot_ret_firstTile(s, dot) ==
  obvious_ret_scan(s, dot, SubSeq(TileScan(s), 1, 1), 1, 0)

solver_obvious_dot_ret(s, dot) ==
  obvious_ret_scan(s, dot, TileScan(s), 1, 0)

\* boards before a dot is added: the cleared board, a board after the
\* first dot of a pass, and the boards with one or two dots
ObviousBoards(w, h) ==
  LET s0 == clear_game(blank_game(w, h)) IN
  {s0} \cup ExpandBoards(w, h)
       \cup {solver_obvious_dot(add_dot(s0, sp), sp) :
               sp \in {c \in Spaces(s0) : dot_is_possible(s0, c, FALSE)}}

\* the two places solver_obvious_dot is called from: generate_pass after
\* add_dot(sp), and dot_expand_or_move after its second loop
ObviousCalls(w, h) ==
  UNION {{[state |-> add_dot(b, sp), dot |-> sp, toadd |-> <<>>] :
            sp \in {c \in Spaces(b) : dot_is_possible(b, c, FALSE)}} :
         b \in ObviousBoards(w, h)}
    \cup UNION {{[state |-> expand_scan(b, c.dot, c.toadd, 1), dot |-> c.dot,
                  toadd |-> c.toadd] :
                   c \in {e \in ExpandCalls(b, "zero") :
                            expand_allowed(b, e.dot, e.toadd)}} :
                b \in ExpandBoards(w, h)}

ObviousInit ==
  /\ SolverIdle
  /\ gpc = "obvious"
  /\ divByZero = "zero"
  /\ \E sz \in ExpandSizes : \E c \in ObviousCalls(sz[1], sz[2]) :
       state = c.state /\ fnDot = c.dot /\ fnToadd = c.toadd
  /\ fnRet = -1
  /\ NoRun
  /\ live = {}
  /\ quiet = 0
  /\ plan = <<>>
  /\ loopI = 0
  /\ desc = <<>>

\* "solver_obvious_dot(state, dot)", and once more on the board it left
ObviousCall ==
  /\ gpc \in {"obvious", "once"}
  /\ LET r == solver_obvious_dot_ret(state, fnDot) IN
     /\ state' = r.state
     /\ fnRet' = r.ret
  /\ gpc' = IF gpc = "obvious" THEN "once" ELSE "twice"
  /\ UNCHANGED <<solverVars, runVars, live, quiet, plan, loopI, divByZero,
                 desc, fnDot, fnToadd>>

ObviousNext == ObviousCall

ObviousSpec == ObviousInit /\ [][ObviousNext]_vars

\* the unassociated tiles whose partner about dot D is on the board and is
\* unassociated or owned by D
CompatibleTiles(s, D) ==
  {t \in TileCells(s) :
     /\ F_TILE_ASSOC \notin s.grid[t].flags
     /\ <<2 * D[1] - t[1], 2 * D[2] - t[2]>> \in Spaces(s)
     /\ LET m == <<2 * D[1] - t[1], 2 * D[2] - t[2]>> IN
        \/ F_TILE_ASSOC \notin s.grid[m].flags
        \/ <<s.grid[m].dotx, s.grid[m].doty>> = D}

\* C29: solver_obvious_dot(D) reaches a fixpoint in one scan: after it
\* returns no unassociated tile remains whose partner about D is in bounds
\* and is unassociated or owned by D, and a second call at once changes
\* nothing and returns 0.
C29_ObviousDotOneScan ==
  [][/\ gpc = "obvious" =>
          /\ state' = solver_obvious_dot(state, fnDot)
          /\ CompatibleTiles(state', fnDot) = {}
     /\ gpc = "once" => (state' = state /\ fnRet' = 0)]_vars

\* the second call has returned, the first having given tiles to a dot just
\* added next to another dot's region, with unassociated tiles left
C29_Witness ==
  /\ gpc = "twice" /\ fnRet = 0
  /\ fnToadd = <<>>
  /\ Cardinality(TilesOf(state, fnDot)) >= 2
  /\ Cardinality(DotCells(state)) >= 2
  /\ \E t \in TileCells(state) : F_TILE_ASSOC \notin state.grid[t].flags

\* ------------------------------------ the outlining pass on its own
\* a scan that flips the edges of the tile that lie on the frame
RECURSIVE outline_flip_scan(_, _, _)
outline_flip_scan(s, tile, i) ==
  IF i > 4 THEN s
  ELSE LET dxs == <<-1, 1, 0, 0>>
           dys == <<0, 0, -1, 1>>
           e   == <<tile[1] + dxs[i], tile[2] + dys[i]>>
       IN IF ~INGRID(s, e[1], e[2]) THEN outline_flip_scan(s, tile, i + 1)
          ELSE IF INGRID(s, e[1] + dxs[i], e[2] + dys[i])
               THEN outline_flip_scan(s, tile, i + 1)
               ELSE outline_flip_scan(
                      [s EXCEPT !.grid[e].flags =
                         IF F_EDGE_SET \in @ THEN @ \ {F_EDGE_SET}
                         ELSE @ \cup {F_EDGE_SET}],
                      tile, i + 1)

\* "for (i = 0; i < sx * sy; i++) if (grid[i].type == s_tile)
\*    outline_tile_fordot(state, &grid[i], TRUE);" from index i on
RECURSIVE outline_from(_, _, _)
outline_from(s, i, flips) ==
  IF i >= s.sx * s.sy THEN s
  ELSE IF SpaceType(SpaceAt(s, i)[1], SpaceAt(s, i)[2]) # "s_tile"
       THEN outline_from(s, i + 1, flips)
       ELSE outline_from(IF flips
                         THEN outline_flip_scan(s, SpaceAt(s, i), 1)
                         ELSE outline_tile_fordot(s, SpaceAt(s, i)),
                         i + 1, flips)

\* variant: a tile's turn flips its edges on the frame and leaves the others
outline_pass_flipsFrame(s) == outline_from(s, 0, TRUE)

\* the outlining loop of generate_new_game
outline_pass(s) == outline_from(s, 0, FALSE)

\* board sizes the pass is run on
OutlineSizes == {<<1, 1>>, <<2, 1>>, <<1, 2>>, <<3, 1>>}

\* the cells tiles are associated to: up to MaxDots cells inside the frame
OutlineOwners(s) ==
  {c \in Interior(s) : SpaceIndex(s, c) - SpaceIndex(s, <<1, 1>>) < MaxDots}

\* the boards of one size: every tile unassociated or associated to one of
\* the owners, every edge cell with the edge flag set or clear
OutlineBoards(w, h) ==
  LET s0 == clear_game(blank_game(w, h))
      E  == {c \in Spaces(s0) : SpaceType(c[1], c[2]) = "s_edge"}
      T  == {c \in Spaces(s0) : SpaceType(c[1], c[2]) = "s_tile"}
  IN {[s0 EXCEPT !.grid =
         [c \in Spaces(s0) |->
            IF c \in E
            THEN [s0.grid[c] EXCEPT !.flags = IF c \in es THEN {F_EDGE_SET} ELSE {}]
            ELSE IF c \in T /\ own[c] # NULL
            THEN [s0.grid[c] EXCEPT !.flags = {F_TILE_ASSOC},
                                    !.dotx = own[c][1], !.doty = own[c][2]]
            ELSE s0.grid[c]]] :
        es \in SUBSET E, own \in [T -> OutlineOwners(s0) \cup {NULL}]}

OutlineInit ==
  /\ SolverIdle
  /\ gpc = "outline_pass"
  /\ divByZero = "zero"
  /\ \E sz \in OutlineSizes : state \in OutlineBoards(sz[1], sz[2])
  /\ fnDot = NoSpace
  /\ fnToadd = <<>>
  /\ fnRet = 0
  /\ NoRun
  /\ live = {}
  /\ quiet = 0
  /\ plan = <<>>
  /\ loopI = 0
  /\ desc = <<>>

\* the outlining loop is run, and run once more on its result; fnRet counts
\* the runs that changed the board
OutlinePass ==
  /\ gpc \in {"outline_pass", "outlined_once"}
  /\ state' = outline_pass(state)
  /\ fnRet' = IF state' = state THEN fnRet ELSE fnRet + 1
  /\ gpc' = IF gpc = "outline_pass" THEN "outlined_once" ELSE "outlined_twice"
  /\ UNCHANGED <<solverVars, runVars, live, quiet, plan, loopI, divByZero,
                 desc, fnDot, fnToadd>>

OutlineNext == OutlinePass

OutlineSpec == OutlineInit /\ [][OutlineNext]_vars

\* C30: the border-outlining pass is idempotent: running outline_tile_fordot
\* over all tiles a second time on the result of the first pass changes no
\* edge flag (nor anything else), for every tile-ownership configuration,
\* boards with unassociated tiles included, and every initial edge-flag
\* configuration.
C30_OutlinePassIdempotent ==
  [][gpc = "outlined_once" => state' = state]_vars

\* the second pass is over on a board with an unassociated tile next to an
\* associated one, the first pass having changed edge flags
C30_Witness ==
  /\ gpc = "outlined_twice"
  /\ fnRet = 1
  /\ \E c \in EdgeCells(state) \cap Interior(state) :
       /\ F_EDGE_SET \in state.grid[c].flags
       /\ \E t, u \in Flanks(c) :
            /\ F_TILE_ASSOC \in state.grid[t].flags
            /\ F_TILE_ASSOC \notin state.grid[u].flags

\* ================================================== in-place DFS and undo
\* the state the moves in progress of a DFS call stack lead to: frame k has
\* applied moves[i] to the state its call was entered with
RECURSIVE Replay(_, _, _, _, _)
Replay(p, zob, s, frames, k) ==
  IF k = 0 THEN s
  ELSE applyMove(p, zob, Replay(p, zob, s, frames, k - 1),
                 frames[k].moves[frames[k].i])

\* the states worker.dfs() can be entered with: the seeded solver itself
\* (single thread), or a copy of it with one root move applied
WorkerRoots ==
  IF pc = "fallback" THEN {cur}
  ELSE {applyMove(puzzle, zobrist, cur, rootMoves[i]) :
          i \in 1 .. Len(rootMoves)}

UndoRestores(s, moves) ==
  \A k \in 1 .. Len(moves) :
     undoMove(puzzle, zobrist, applyMove(puzzle, zobrist, s, moves[k]),
              moves[k]) = s

\* C31: in the in-place DFS drivers, undoMove after applyMove restores grid,
\* filled count and hash for every enumerated move; between two moves of a
\* call and whenever a call returns false, the solver state is the state the
\* call was entered with; and when solve() returns true the solver's grid is
\* the complete accepted grid.
C31_UndoRestoresEntryState ==
  /\ driver = "seq_dfs" =>
       /\ pc = "dfs_loop" =>
            /\ cur = Replay(puzzle, zobrist, SeededState.s, stack, Len(stack) - 1)
            /\ UndoRestores(cur, stack[Len(stack)].moves)
       /\ (pc = "dfs_return" /\ ~retval) =>
            cur = Replay(puzzle, zobrist, SeededState.s, stack, Len(stack))
  /\ (driver = "omp_dfs" /\ pc \in {"parallel", "fallback"}) =>
       \A t \in DOMAIN threads :
          LET th == threads[t] IN
          /\ th.pc = "dfs_loop" =>
               /\ \E b \in WorkerRoots :
                     th.s = Replay(puzzle, zobrist, b, th.stack, Len(th.stack) - 1)
               /\ UndoRestores(th.s, th.stack[Len(th.stack)].moves)
          /\ (th.pc = "dfs_return" /\ ~th.retval) =>
               \E b \in WorkerRoots :
                  th.s = Replay(puzzle, zobrist, b, th.stack, Len(th.stack))
  /\ (driver \in DfsDrivers /\ pc = "done" /\ verdict = "solved") =>
       /\ AcceptableGrid(puzzle, cur.grid)
       /\ cur.filledCount = puzzle.w * puzzle.h
       /\ solution = cur.grid

\* a call below the root has returned false after a move that filled a tile
\* and its mirror image was tried and taken back
C31_Witness ==
  /\ driver = "seq_dfs" /\ pc = "dfs_loop" /\ Len(stack) >= 2
  /\ stack[Len(stack)].i > 1
  /\ LET m == stack[Len(stack)].moves[stack[Len(stack)].i - 1] IN
       /\ m.symmetric_was_empty
       /\ <<m.tx, m.ty>> # <<m.sx, m.sy>>
  /\ cur = Replay(puzzle, zobrist, SeededState.s, stack, Len(stack) - 1)

\* =========================================== DFS verdict against the BFS
\* the while loop of Solver::solve of seq_solver.cpp run to its end: TRUE
\* when a full state with every dot used is popped, FALSE when the queue runs
\* empty
RECURSIVE cpp_bfs_loop(_, _, _, _)
cpp_bfs_step(p, zob, r) == cpp_bfs_loop(p, zob, r.queue, r.visited)

cpp_bfs_loop(p, zob, q, vis) ==
  IF q = <<>> THEN FALSE
  ELSE IF Head(q).filledCount = p.w * p.h
       THEN allDotsUsed(p, Head(q)) \/ cpp_bfs_loop(p, zob, Tail(q), vis)
       ELSE cpp_bfs_step(p, zob, cppExpand(p, zob, Head(q), 0, Tail(q), vis))

cpp_bfs_seeded(p, zob, r) ==
  r.ok /\ cpp_bfs_loop(p, zob, <<r.s>>, {r.s.hash})

\* Solver::solve of seq_solver.cpp as a function of the puzzle: has_value()
cpp_bfs_solve(p, zob) ==
  cpp_bfs_seeded(p, zob, seedForcedTiles(p, zob, EmptyState(p.w, p.h)))

\* C32: the sequential DFS, whose visited set is only ever added to, gives
\* the verdict of the BFS (the Zobrist words being collision free): on every
\* puzzle the DFS driver returns true exactly when the BFS of seq_solver.cpp
\* finds a solution.
C32_DfsVerdictIsBfsVerdict ==
  (pc = "done" /\ driver = "seq_dfs") =>
    ((verdict = "solved") <=> cpp_bfs_solve(puzzle, zobrist))

\* the states dfs() reaches from state s by one move of its list
MovesApplied(st, ms) ==
  {applyMove(puzzle, zobrist, st, ms[idx]) : idx \in 1 .. Len(ms)}

SeqSucc(st) == MovesApplied(st, seqGenerateMoves(puzzle, st, 0, <<>>))

RECURSIVE SeqClosure(_, _)
SeqClosure(frontier, seen) ==
  LET new == (UNION {SeqSucc(st) : st \in frontier}) \ seen IN
  IF new = {} THEN seen ELSE SeqClosure(new, seen \cup new)

\* some state is the result of two different moves, or of moves from two
\* different states: an exhaustive DFS meets it a second time and prunes
TwoWaysInto(S) ==
  \E a \in S :
     \/ Len(seqGenerateMoves(puzzle, a, 0, <<>>)) > Cardinality(SeqSucc(a))
     \/ \E b \in S \ {a} : SeqSucc(a) \cap SeqSucc(b) # {}

\* the DFS has searched a puzzle to exhaustion, pruning a state it reached a
\* second time, and reports no solution as the BFS does
C32_Witness ==
  /\ pc = "done" /\ driver = "seq_dfs" /\ verdict = "no_solution"
  /\ ~seedFailed
  /\ ~cpp_bfs_solve(puzzle, zobrist)
  /\ cur = SeededState.s
  /\ TwoWaysInto(SeqClosure({cur}, {cur}))

\* ============================ cancellation of the parallel DFS, fairness
\* the steps of worker t of the parallel DFS
DfsWorker(t) ==
  \/ OmpGrab(t) \/ OmpRootVisit(t) \/ OmpDfsEnter(t) \/ OmpCas(t)
  \/ OmpCommit(t) \/ OmpDfsApply(t) \/ OmpDfsVisit(t) \/ OmpDfsUndo(t)
  \/ OmpDfsLoopEnd(t) \/ OmpDfsReturn(t) \/ OmpRootReturn(t)

\* the steps of the thread that calls solve()
DfsMain ==
  \/ (driver = "omp_dfs" /\ Parse)
  \/ OmpSeed \/ OmpJoin \/ OmpFallbackReturn

ParDfsInit == ParInit /\ driver = "omp_dfs"

ParDfsNext == DfsMain \/ \E t \in 0 .. MaxThreads - 1 : DfsWorker(t)

\* the runs of the parallel DFS in which every thread that can take a step
\* eventually takes one: the threads of the team are scheduled by the
\* operating system, and the implicit barrier at the end of the parallel
\* region lets the calling thread go on once all have finished
ParFairSpec ==
  /\ ParDfsInit /\ [][ParDfsNext]_vars
  /\ WF_vars(DfsMain)
  /\ \A t \in 0 .. MaxThreads - 1 : WF_vars(DfsWorker(t))

\* with found set, a step applies no move and starts no commit: a worker's
\* solver state changes only by undoMove, no worker arrives at the
\* compare-exchange, and a grid is written only by the worker that set the
\* flag and is already on its way into the critical section
CancelledStep ==
  (driver = "omp_dfs" /\ pc \in {"parallel", "fallback"} /\ found) =>
     /\ \A t \in DOMAIN threads :
          /\ threads'[t].s # threads[t].s =>
               threads[t].pc \in {"dfs_undo", "dfs_return"}
          /\ threads'[t].pc \in {"cas", "dfs_loop", "dfs_visit", "root_visit"} =>
               threads[t].pc \in {threads'[t].pc, "dfs_undo"}
     /\ commits' # commits => \E t \in DOMAIN threads : threads[t].pc = "commit"

\* C33: in the parallel DFS the found flag, once true, is never reset; a
\* worker that sees it applies no further move and commits no grid, leaving
\* at its next loop boundary or dfs entry; and when every thread that can
\* step eventually does, all workers finish and solve() returns.
C33_CancellationTerminates ==
  /\ [][found => found']_vars
  /\ [][CancelledStep]_vars
  /\ (driver = "omp_dfs") ~> (pc = "done")

\* one worker has set the flag while another is inside dfs() below the root
C33_Witness ==
  /\ driver = "omp_dfs" /\ pc = "parallel" /\ found
  /\ \E t, u \in DOMAIN threads :
        /\ t # u
        /\ threads[t].pc = "commit"
        /\ threads[u].pc \in {"dfs_loop", "dfs_visit", "dfs_enter"}
        /\ threads[u].stack # <<>>

\* ===================================== the workers' caches of seen hashes
\* worker t leaves its test of a new state in this step
VisitStep(t) ==
  /\ t \in DOMAIN threads
  /\ threads[t].pc \in {"root_visit", "dfs_visit"}
  /\ threads'[t].pc # threads[t].pc

\* C34: tryMarkVisitedWithLocal looks in the worker's own cache first and
\* calls tryMarkVisited on the shared set only when the hash is not in the
\* cache; a hash enters the cache only with this worker's successful insertion
\* into the shared set, so every worker's cache is at every point a subset of
\* the shared visited set.
C34_LocalCacheDiscipline ==
  [][ driver = "omp_dfs" =>
        /\ \A t \in DOMAIN threads' : threads'[t].local_seen \subseteq visited'
        /\ \A t \in DOMAIN threads : VisitStep(t) =>
             LET h == threads[t].s.hash
                 l == threads[t].local_seen
                 r == tryMarkVisitedWithLocal(h, l, visited)
             IN /\ r.queried <=> h \notin l
                /\ h \in l => visited' = visited
                /\ threads'[t].local_seen # l =>
                     /\ h \notin visited
                     /\ visited' = visited \cup {h}
                     /\ threads'[t].local_seen = l \cup {h}
                /\ threads'[t].pc = "dfs_enter" <=> h \notin visited ]_vars

\* a worker is back at a state it has itself inserted before: the hash is in
\* its cache and the shared set is left alone
C34_Witness ==
  /\ driver = "omp_dfs"
  /\ \E t \in DOMAIN threads :
        /\ threads[t].pc = "dfs_visit"
        /\ threads[t].s.hash \in threads[t].local_seen
        /\ threads[t].local_seen \subseteq visited
        /\ threads[t].local_seen # visited

\* ================================== the levels of the level-parallel BFS
\* the local lists of threads 0 .. n-1, one after the other
RECURSIVE LocalLists(_, _)
LocalLists(ths, n) ==
  IF n = 0 THEN <<>> ELSE LocalLists(ths, n - 1) \o ths[n - 1].local

\* the successors built in this level and not yet handed on: the queue and
\* the lists of the threads that have not merged yet
Unmerged(ths) ==
  [t \in DOMAIN ths |->
     [ths[t] EXCEPT !.local = IF ths[t].pc = "finished" THEN <<>> ELSE @]]

EnqueuedNow(q, lv, ths) ==
  lv \o q \o LocalLists(Unmerged(ths), Cardinality(DOMAIN ths))

DistinctHashes(seq) ==
  \A i, j \in 1 .. Len(seq) : seq[i].hash = seq[j].hash => i = j

\* thread t takes iteration levelI of the omp for loop in this step
TakesIteration(t) ==
  /\ driver = "omp_bfs" /\ pc = "parallel"
  /\ t \in DOMAIN threads /\ threads[t].pc = "grab"
  /\ levelI' = levelI + 1
  /\ \A u \in DOMAIN threads \ {t} : threads'[u] = threads[u]
  /\ threads'[t].pc \in {"grab", "process"}

\* the iterations of the loop are handed out one by one, a successor is
\* put on a local list only when its hash is new to the table, no hash is
\* enqueued twice, and at the end of the parallel region the queue holds
\* the local lists and nothing else
LevelStep ==
  /\ levelI' \in {levelI, levelI + 1, 0}
  /\ pc' = "parallel" => levelI' <= Len(level')
  /\ \A t \in DOMAIN threads :
        (t \in DOMAIN threads' /\ threads'[t].local # threads[t].local) =>
           \E k \in 1 .. Len(threads[t].succ) :
              /\ threads'[t].local = Append(threads[t].local, threads[t].succ[k])
              /\ threads[t].succ[k].hash \notin visited
              /\ threads[t].succ[k].hash \in visited'
  /\ LET all == EnqueuedNow(queue', level', threads') IN
       /\ DistinctHashes(all)
       /\ \A i \in 1 .. Len(all) : all[i].hash \in visited'
  /\ (pc' = "parallel" /\ \A t \in DOMAIN threads' : threads'[t].pc = "finished") =>
       /\ levelI' = Len(level')
       /\ Len(queue') = Len(LocalLists(threads', Cardinality(DOMAIN threads')))
       /\ {queue'[i] : i \in 1 .. Len(queue')} =
            UNION {{threads'[t].local[i] : i \in 1 .. Len(threads'[t].local)} :
                     t \in DOMAIN threads'}

\* C35 as stated: under every interleaving each state of a level is expanded
\* by exactly one worker (the worker that takes its iteration processes it),
\* each successor hash is enqueued at most once over the run, and the next
\* queue is exactly the union of the workers' local lists.
C35_Original ==
  [][ driver = "omp_bfs" =>
        /\ LevelStep
        /\ \A t \in DOMAIN threads : TakesIteration(t) =>
              /\ threads'[t].pc = "process"
              /\ threads'[t].s = level[levelI + 1] ]_vars

\* C35, amended: each state of a level is handed to exactly one worker,
\* which processes it unless it reads solution_found as set and skips the
\* iteration; each successor hash is enqueued at most once over the run, and
\* the next queue is exactly the union of the workers' local lists.
C35_LevelHandedOutOnce ==
  [][ driver = "omp_bfs" =>
        /\ LevelStep
        /\ \A t \in DOMAIN threads : TakesIteration(t) =>
              \/ /\ threads'[t].pc = "process"
                 /\ threads'[t].s = level[levelI + 1]
              \/ /\ found
                 /\ threads'[t] = threads[t] ]_vars

\* the parallel region of a level ends: two workers have merged their
\* non-empty lists into the queue
C35_Witness ==
  /\ driver = "omp_bfs" /\ pc = "parallel"
  /\ \A t \in DOMAIN threads : threads[t].pc = "finished"
  /\ levelI = Len(level)
  /\ \E t, u \in DOMAIN threads :
        t # u /\ threads[t].local # <<>> /\ threads[u].local # <<>>
  /\ Len(queue) = Len(LocalLists(threads, Cardinality(DOMAIN threads)))

\* ============================== progress and termination of the searches
SeqDrivers == {"cpp_bfs", "seq_dfs"}

\* the boards the fair runs are checked on have at most this many tiles
MaxFairTiles == 6

\* the Game IDs of the fair runs: the boards of at most two tiles and the
\* hand-written boards up to MaxFairTiles tiles
FairIds ==
  {g \in GameIds : g.w * g.h <= 2}
    \cup {g \in ScenarioIds : g.w * g.h <= MaxFairTiles}

SeqInit == Init /\ driver \in SeqDrivers /\ gameId \in FairIds

SeqNext ==
  \/ Parse
  \/ CppBfsSeed \/ CppBfsFull \/ CppBfsExpand \/ CppBfsExhausted
  \/ SeqDfsSeed \/ SeqDfsEnter \/ SeqDfsApply \/ SeqDfsVisit \/ SeqDfsUndo
  \/ SeqDfsLoopEnd \/ SeqDfsReturn

\* a sequential solver runs on as long as it has a step to take
SeqFairSpec == SeqInit /\ [][SeqNext]_vars /\ WF_vars(SeqNext)

\* the states pushed by the iteration of the BFS loop taken in this step
Pushed == SubSeq(queue', Len(queue), Len(queue'))

\* a move fills one or two tiles: the DFS counter grows by 1 or 2 with
\* applyMove, a pushed BFS successor has 1 or 2 tiles more than the state
\* popped; a pushed state's hash is new to the visited set, so no state is
\* enqueued twice; the DFS is never deeper than the number of tiles
SearchStep ==
  /\ (driver = "seq_dfs" /\ pc = "dfs_loop" /\ pc' = "dfs_visit") =>
        cur'.filledCount - cur.filledCount \in {1, 2}
  /\ (driver = "seq_dfs" /\ pc' \in {"dfs_enter", "dfs_loop", "dfs_visit"}) =>
        /\ Len(stack') <= puzzle'.w * puzzle'.h
        /\ cur'.filledCount <= puzzle'.w * puzzle'.h
  /\ (driver = "cpp_bfs" /\ pc = "bfs" /\ pc' = "bfs") =>
        /\ \A i \in 1 .. Len(Pushed) :
              /\ Pushed[i].filledCount - Head(queue).filledCount \in {1, 2}
              /\ Pushed[i].hash \notin visited
              /\ Pushed[i].hash \in visited'
        /\ DistinctHashes(queue')
        /\ \A i \in 1 .. Len(queue') : queue'[i].hash \in visited'

\* C36: every move of the sequential searches strictly increases the
\* filled count, by 1 or 2; the DFS is never deeper than W*H calls; the BFS
\* enqueues no state twice; and on every puzzle the BFS and the DFS come to
\* an end with a solution or a no-solution verdict.
C36_SearchTerminates ==
  /\ [][SearchStep]_vars
  /\ <>(pc = "done" /\ verdict \in {"solved", "no_solution"})

\* the DFS has gone down by pair moves and single moves and come to its end
C36_Witness ==
  /\ driver = "seq_dfs" /\ pc = "done" /\ verdict = "solved"
  /\ cur.filledCount = puzzle.w * puzzle.h
  /\ cur.filledCount - SeededState.s.filledCount >= 2
  /\ iterations >= 2

\* ======================================================= the seeded tiles
\* the tiles of the board that touch dot d of puzzle p
TouchSet(p, d) == {t \in Tiles(p.w, p.h) : Touches(DotAt(p, d), t)}

SeedIsTouchSet(p, g) ==
  \A d \in 0 .. NDots(p) - 1 : {t \in DOMAIN g : g[t] = d} = TouchSet(p, d)

\* C37: when seeding succeeds, the state every driver starts its search
\* from gives each dot exactly the tiles of the board that touch it: one for
\* a dot on a tile centre, two for a dot on an edge, four for a dot on a
\* vertex.
C37_SeedIsTouchSet ==
  (pc \notin {"parse", "seed"} /\ ~seedFailed) =>
     SeedIsTouchSet(puzzle, SeededState.s.grid)

\* the same for the drivers that seed with seedForcedTiles
C37_CppSeedIsTouchSet ==
  (pc \notin {"parse", "seed"} /\ ~seedFailed /\ driver # "c_bfs") =>
     SeedIsTouchSet(puzzle, SeededState.s.grid)

\* ================================================= a dot as it is placed
\* the tile coordinates at distance at most one from cell d: the tile itself
\* for a tile centre, two for an edge, four for a vertex
TouchCoords(d) ==
  {<<x, y>> : x \in {v \in d[1] - 1 .. d[1] + 1 : v % 2 = 1},
              y \in {v \in d[2] - 1 .. d[2] + 1 : v % 2 = 1}}

\* generate_pass puts a dot on cell c in this step
PlacesDot(c) ==
  /\ gpc = "pass"
  /\ F_DOT \notin state.grid[c].flags
  /\ F_DOT \in state'.grid[c].flags

\* C38: the step of generate_pass that places a dot (add_dot followed by
\* solver_obvious_dot) leaves every tile touching the dot inside the grid and
\* associated to that dot; and once the pass is over every dot has
\* nassoc >= 1 and no dot lies on the outermost ring of the internal grid.
C38_NewDotOwnsTouchingTiles ==
  /\ [][\A c \in Spaces(state) :
          PlacesDot(c) =>
            \A t \in TouchCoords(c) :
              /\ INGRID(state', t[1], t[2])
              /\ F_TILE_ASSOC \in state'.grid[t].flags
              /\ OwnerOf(state', t) = c]_vars
  /\ [](gpc \in {"outline", "done"} =>
          \A d \in DotCells(state) :
            /\ state.grid[d].nassoc >= 1
            /\ d \notin FrameCells(state))

\* a finished board with a dot on an edge that owns the two tiles touching
\* it and a dot on a tile centre
C38_Witness ==
  /\ gpc = "done"
  /\ \E d, e \in DotCells(state) :
       /\ SpaceType(d[1], d[2]) = "s_edge"
       /\ TouchCoords(d) \subseteq TilesOf(state, d)
       /\ Cardinality(TouchCoords(d)) = 2
       /\ SpaceType(e[1], e[2]) = "s_tile"
       /\ e \in TilesOf(state, e)

\* ============================================ ownership during generation
\* C39: from clear_game on, no generator step takes the dot flag off a cell,
\* clears a tile's associated flag or changes the owner recorded in an
\* associated tile; and the owner recorded in an associated tile is always a
\* cell of the grid that carries the dot flag (what the assertions in
\* dot_expand_or_move and solver_obvious_dot test).
C39_OwnershipMonotonic ==
  /\ [][Generating =>
          \A c \in Spaces(state) :
            /\ F_DOT \in state.grid[c].flags => F_DOT \in state'.grid[c].flags
            /\ F_TILE_ASSOC \in state.grid[c].flags =>
                 /\ F_TILE_ASSOC \in state'.grid[c].flags
                 /\ OwnerOf(state', c) = OwnerOf(state, c)]_vars
  /\ [](Generating =>
          \A c \in Spaces(state) :
            F_TILE_ASSOC \in state.grid[c].flags =>
              /\ INGRID(state, state.grid[c].dotx, state.grid[c].doty)
              /\ F_DOT \in state.grid[OwnerOf(state, c)].flags)

\* a finished board with three dots or more and every tile associated: the
\* tiles of the dots placed first went through the later placements
C39_Witness ==
  /\ gpc = "done"
  /\ Cardinality(DotCells(state)) >= 3
  /\ \A c \in TileCells(state) : F_TILE_ASSOC \in state.grid[c].flags
  /\ \E d \in DotCells(state) : Cardinality(TilesOf(state, d)) >= 3

\* ===================================================== the filled counter
\* the tiles of the w x h board that grid g gives to a dot
AssignedTiles(p, g) == {t \in Tiles(p.w, p.h) \cap DOMAIN g : g[t] # -1}

\* every solver state of the run: the seeded / in-place state (with the grid
\* copied back at the end of the parallel DFS), the queued states, the
\* states of the level in hand and the workers' states
CountedStates ==
  {cur} \cup {queue[i] : i \in 1 .. Len(queue)}
        \cup {level[i] : i \in 1 .. Len(level)}
        \cup {threads[t].s : t \in DOMAIN threads}

\* C40: in every solver state reached by seeding, applying and undoing
\* moves, in every driver, the filled counter is the number of tiles of the
\* board whose grid entry is not -1, so the counter equals W * H exactly when
\* no tile is unassigned.
C40_FilledCountsAssignedTiles ==
  \A s \in CountedStates :
    /\ s.filledCount = Cardinality(AssignedTiles(puzzle, s.grid))
    /\ Tiles(puzzle.w, puzzle.h) \subseteq DOMAIN s.grid =>
         ((s.filledCount = puzzle.w * puzzle.h)
            <=> (\A t \in Tiles(puzzle.w, puzzle.h) : s.grid[t] # -1))

\* the same for the drivers that seed with seedForcedTiles
C40_CppFilledCountsAssignedTiles ==
  driver \in {"cpp_bfs", "seq_dfs", "omp_dfs"} =>
    \A s \in CountedStates :
      s.filledCount = Cardinality(AssignedTiles(puzzle, s.grid))

====
